---- MODULE Spec2Model ----
(***************************************************************************)
(* Chart-intent inference engine of recharts-app: the ChartGenerator        *)
(* component (flattener, field classifier, prompt interpreter, config      *)
(* assembler effect) and the ECharts chart-type registry.                   *)
(*                                                                         *)
(* Strings are sequences of one-character strings, so that substring,      *)
(* regular-expression and slicing operations of the source are computed    *)
(* character by character.  A JavaScript object is a sequence of           *)
(* <<key, value>> pairs in insertion order; a JSON value is a tagged tuple *)
(* <<"num", n>>, <<"str", chars>>, <<"bool", b>>, <<"null">>,              *)
(* <<"arr", elems>> or <<"obj", pairs>>.                                   *)
(***************************************************************************)
EXTENDS Integers, Sequences, FiniteSets, TLC

----------------------------------------------------------------------------
(* Characters and JavaScript string primitives                             *)

LowerSeq ==
  <<"a","b","c","d","e","f","g","h","i","j","k","l","m",
    "n","o","p","q","r","s","t","u","v","w","x","y","z">>

UpperSeq ==
  <<"A","B","C","D","E","F","G","H","I","J","K","L","M",
    "N","O","P","Q","R","S","T","U","V","W","X","Y","Z">>

DigitSeq ==
  <<"0","1","2","3","4","5","6","7","8","9">>

\* the array whose element i is f[i], for a function f on 1..n
Array(f) ==
  SubSeq(f, 1, Len(f))

\* the element of a set of one element; in { e : x \in {v} } the expression
\* e is evaluated with x bound to the value of v
The(S) ==
  CHOOSE r \in S : TRUE

Range(f) ==
  { f[i] : i \in DOMAIN f }

\* \s of a JavaScript regular expression, and the characters trim() strips
IsSpace(c) ==
  c \in {" ", "\t", "\n", "\r"}

\* \w of a JavaScript regular expression
IsWordChar(c) ==
  c \in Range(LowerSeq) \cup Range(UpperSeq) \cup Range(DigitSeq) \cup {"_"}

ToLowerChar(c) ==
  IF \E i \in 1..26 : UpperSeq[i] = c
    THEN LowerSeq[CHOOSE i \in 1..26 : UpperSeq[i] = c]
    ELSE c

\* String.prototype.toLowerCase
ToLowerCase(s) ==
  Array([i \in 1..Len(s) |-> ToLowerChar(s[i])])

RECURSIVE TrimStart(_)
TrimStart(s) ==
  IF s # <<>> /\ IsSpace(Head(s)) THEN TrimStart(Tail(s)) ELSE s

RECURSIVE TrimEnd(_)
TrimEnd(s) ==
  IF s # <<>> /\ IsSpace(s[Len(s)])
    THEN TrimEnd(SubSeq(s, 1, Len(s) - 1))
    ELSE s

\* String.prototype.trim
Trim(s) ==
  TrimEnd(TrimStart(s))

\* s.slice(i - 1, i - 1 + Len(w)) === w, for a 1-based position i
MatchAt(w, s, i) ==
  /\ i >= 1
  /\ i + Len(w) - 1 <= Len(s)
  /\ SubSeq(s, i, i + Len(w) - 1) = w

\* String.prototype.includes
Includes(s, w) ==
  \E i \in 1..(Len(s) + 1) : MatchAt(w, s, i)

RECURSIVE Join(_, _)
\* Array.prototype.join over an array of strings
Join(parts, sep) ==
  IF parts = <<>> THEN <<>>
  ELSE IF Len(parts) = 1 THEN parts[1]
  ELSE parts[1] \o sep \o Join(Tail(parts), sep)

RECURSIVE SplitBy(_, _, _)
\* String.prototype.split on a one-character separator class: the pieces
\* between separator characters, empty pieces kept (cur is the piece read
\* so far)
SplitBy(s, seps, cur) ==
  IF s = <<>> THEN <<cur>>
  ELSE IF Head(s) \in seps THEN <<cur>> \o SplitBy(Tail(s), seps, <<>>)
  ELSE SplitBy(Tail(s), seps, Append(cur, Head(s)))

RECURSIVE SplitRuns(_, _, _, _)
\* String.prototype.split(/\s+/): a run of separators counts once; an empty
\* piece appears only at an end of the string (inRun: the previous
\* character was a separator)
SplitRuns(s, seps, cur, inRun) ==
  IF s = <<>> THEN <<cur>>
  ELSE IF Head(s) \in seps
    THEN IF inRun THEN SplitRuns(Tail(s), seps, cur, TRUE)
         ELSE <<cur>> \o SplitRuns(Tail(s), seps, <<>>, TRUE)
  ELSE SplitRuns(Tail(s), seps, Append(cur, Head(s)), FALSE)

SpaceChars ==
  {" ", "\t", "\n", "\r"}

SplitWhitespace(s) ==
  SplitRuns(s, SpaceChars, <<>>, FALSE)

\* a position of s where a \b of a regular expression matches: the
\* characters before and at position i differ in being word characters
WordBoundary(s, i) ==
  LET before == i - 1 >= 1 /\ i - 1 <= Len(s) /\ IsWordChar(s[i - 1])
      at == i >= 1 /\ i <= Len(s) /\ IsWordChar(s[i])
  IN before # at

RECURSIVE MatchParts(_, _, _)
\* the parts of a keyword joined by \s+ match s from position i, and a \b
\* follows the last part
MatchParts(parts, s, i) ==
  /\ MatchAt(parts[1], s, i)
  /\ LET j == i + Len(parts[1])
     IN IF Len(parts) = 1 THEN WordBoundary(s, j)
        ELSE \E n \in 1..(Len(s) - j + 1) :
               /\ \A k \in j..(j + n - 1) : IsSpace(s[k])
               /\ MatchParts(Tail(parts), s, j + n)

\* new RegExp(`\\b${keyword.replace(/\s+/g, "\\s+")}\\b`, "i").test(s)
KeywordRegexTest(keyword, s) ==
  LET parts == SplitWhitespace(keyword)
      low == ToLowerCase(s)
  IN \E i \in 1..Len(low) : WordBoundary(low, i) /\ MatchParts(parts, low, i)

----------------------------------------------------------------------------
(* Chart-type registry: identifiers and keyword lists, in the order of the *)
(* object literal                                                          *)

\* chartType is the key of the entry, which is what detectEChartsType returns
ECHARTS_TYPE_CONFIGS ==
  <<
    [chartType |-> "bar", keywords |-> <<
        <<"b","a","r">>,
        <<"b","a","r","s">>,
        <<"c","o","l","u","m","n">>,
        <<"c","o","l","u","m","n","s">>>>],
    [chartType |-> "stackedbar", keywords |-> <<
        <<"s","t","a","c","k","e","d"," ","b","a","r">>,
        <<"s","t","a","c","k","e","d"," ","c","o","l","u","m","n">>,
        <<"s","t","a","c","k","e","d"," ","b","a","r","s">>>>],
    [chartType |-> "groupedbar", keywords |-> <<
        <<"g","r","o","u","p","e","d"," ","b","a","r">>,
        <<"g","r","o","u","p","e","d"," ","c","o","l","u","m","n">>,
        <<"g","r","o","u","p","e","d"," ","b","a","r","s">>>>],
    [chartType |-> "line", keywords |-> <<
        <<"l","i","n","e">>,
        <<"l","i","n","e","s">>,
        <<"g","r","a","p","h">>,
        <<"g","r","a","p","h","s">>,
        <<"t","r","e","n","d">>>>],
    [chartType |-> "area", keywords |-> <<
        <<"a","r","e","a">>,
        <<"a","r","e","a","s">>,
        <<"f","i","l","l","e","d">>>>],
    [chartType |-> "stackedarea", keywords |-> <<
        <<"s","t","a","c","k","e","d"," ","a","r","e","a">>,
        <<"s","t","a","c","k","e","d"," ","a","r","e","a","s">>>>],
    [chartType |-> "pie", keywords |-> <<
        <<"p","i","e">>,
        <<"p","i","e","s">>,
        <<"c","i","r","c","l","e">>,
        <<"p","e","r","c","e","n","t","a","g","e">>,
        <<"p","r","o","p","o","r","t","i","o","n">>>>],
    [chartType |-> "donut", keywords |-> <<
        <<"d","o","n","u","t">>,
        <<"d","o","u","g","h","n","u","t">>>>],
    [chartType |-> "scatter", keywords |-> <<
        <<"s","c","a","t","t","e","r">>,
        <<"s","c","a","t","t","e","r"," ","p","l","o","t">>,
        <<"s","c","a","t","t","e","r","p","l","o","t">>>>],
    [chartType |-> "bubble", keywords |-> <<
        <<"b","u","b","b","l","e">>,
        <<"b","u","b","b","l","e","s">>>>],
    [chartType |-> "radar", keywords |-> <<
        <<"r","a","d","a","r">>,
        <<"s","p","i","d","e","r">>,
        <<"w","e","b">>,
        <<"p","o","l","a","r">>>>],
    [chartType |-> "heatmap", keywords |-> <<
        <<"h","e","a","t","m","a","p">>,
        <<"h","e","a","t"," ","m","a","p">>>>],
    [chartType |-> "treemap", keywords |-> <<
        <<"t","r","e","e","m","a","p">>,
        <<"t","r","e","e"," ","m","a","p">>,
        <<"h","i","e","r","a","r","c","h","y">>>>],
    [chartType |-> "funnel", keywords |-> <<
        <<"f","u","n","n","e","l">>,
        <<"f","u","n","n","e","l","s">>,
        <<"c","o","n","v","e","r","s","i","o","n">>>>],
    [chartType |-> "sankey", keywords |-> <<
        <<"s","a","n","k","e","y">>,
        <<"f","l","o","w">>,
        <<"a","l","l","u","v","i","a","l">>>>],
    [chartType |-> "sunburst", keywords |-> <<
        <<"s","u","n","b","u","r","s","t">>,
        <<"s","u","n"," ","b","u","r","s","t">>,
        <<"h","i","e","r","a","r","c","h","i","c","a","l"," ","p","i","e">>>>],
    [chartType |-> "radialbar", keywords |-> <<
        <<"r","a","d","i","a","l">>,
        <<"r","a","d","i","a","l"," ","b","a","r">>,
        <<"g","a","u","g","e">>>>],
    [chartType |-> "polararea", keywords |-> <<
        <<"p","o","l","a","r"," ","a","r","e","a">>,
        <<"p","o","l","a","r"," ","a","r","e","a"," ","c","h","a","r","t">>>>],
    [chartType |-> "histogram", keywords |-> <<
        <<"h","i","s","t","o","g","r","a","m">>,
        <<"h","i","s","t","o","g","r","a","m","s">>>>],
    [chartType |-> "boxplot", keywords |-> <<
        <<"b","o","x"," ","p","l","o","t">>,
        <<"b","o","x","p","l","o","t">>,
        <<"b","o","x"," ","a","n","d"," ","w","h","i","s","k","e","r">>>>],
    [chartType |-> "lollipop", keywords |-> <<
        <<"l","o","l","l","i","p","o","p">>,
        <<"l","o","l","l","i","p","o","p","s">>>>],
    [chartType |-> "density", keywords |-> <<
        <<"d","e","n","s","i","t","y"," ","p","l","o","t">>,
        <<"d","e","n","s","i","t","y">>>>],
    [chartType |-> "candlestick", keywords |-> <<
        <<"c","a","n","d","l","e","s","t","i","c","k">>,
        <<"c","a","n","d","l","e">>,
        <<"o","h","l","c">>,
        <<"f","i","n","a","n","c","i","a","l">>,
        <<"s","t","o","c","k">>,
        <<"t","r","a","d","i","n","g">>>>],
    [chartType |-> "parallel", keywords |-> <<
        <<"p","a","r","a","l","l","e","l">>,
        <<"p","a","r","a","l","l","e","l"," ","c","o","o","r","d","i","n","a","t","e","s">>,
        <<"m","u","l","t","i","v","a","r","i","a","t","e">>,
        <<"c","o","r","r","e","l","a","t","i","o","n">>>>],
    [chartType |-> "graph", keywords |-> <<
        <<"g","r","a","p","h">>,
        <<"n","e","t","w","o","r","k">>,
        <<"n","o","d","e">>,
        <<"l","i","n","k">>,
        <<"r","e","l","a","t","i","o","n","s","h","i","p">>,
        <<"c","o","n","n","e","c","t","i","o","n">>,
        <<"g","r","a","p","h"," ","d","i","a","g","r","a","m">>>>],
    [chartType |-> "themeriver", keywords |-> <<
        <<"t","h","e","m","e"," ","r","i","v","e","r">>,
        <<"s","t","r","e","a","m">>,
        <<"f","l","o","w">>,
        <<"t","i","m","e","l","i","n","e">>,
        <<"e","v","e","n","t"," ","f","l","o","w">>>>],
    [chartType |-> "effectscatter", keywords |-> <<
        <<"e","f","f","e","c","t"," ","s","c","a","t","t","e","r">>,
        <<"r","i","p","p","l","e">>,
        <<"a","n","i","m","a","t","e","d"," ","s","c","a","t","t","e","r">>,
        <<"p","u","l","s","i","n","g"," ","s","c","a","t","t","e","r">>>>],
    [chartType |-> "lines", keywords |-> <<
        <<"l","i","n","e","s">>,
        <<"r","o","u","t","e">>,
        <<"p","a","t","h">>,
        <<"t","r","a","j","e","c","t","o","r","y">>,
        <<"m","o","v","e","m","e","n","t">>,
        <<"f","l","o","w"," ","l","i","n","e","s">>>>],
    [chartType |-> "tree", keywords |-> <<
        <<"t","r","e","e">>,
        <<"h","i","e","r","a","r","c","h","i","c","a","l"," ","t","r","e","e">>,
        <<"o","r","g","a","n","i","z","a","t","i","o","n">>,
        <<"o","r","g"," ","c","h","a","r","t">>,
        <<"t","r","e","e"," ","d","i","a","g","r","a","m">>>>],
    [chartType |-> "calendar", keywords |-> <<
        <<"c","a","l","e","n","d","a","r">>,
        <<"c","a","l","e","n","d","a","r"," ","h","e","a","t","m","a","p">>,
        <<"h","e","a","t"," ","c","a","l","e","n","d","a","r">>,
        <<"a","c","t","i","v","i","t","y"," ","c","a","l","e","n","d","a","r">>,
        <<"d","a","i","l","y">>>>]
  >>

RegistryIndex ==
  1..Len(ECHARTS_TYPE_CONFIGS)

RegisteredTypes ==
  { ECHARTS_TYPE_CONFIGS[i].chartType : i \in RegistryIndex }

\* Math.max(...config.keywords.map((k) => k.length))
MaxKeywordLength(config) ==
  CHOOSE n \in { Len(config.keywords[k]) : k \in DOMAIN config.keywords } :
    \A k \in DOMAIN config.keywords : Len(config.keywords[k]) <= n

\* the position entry i takes under the stable sort with the comparator
\* bMaxKeyword - aMaxKeyword: after every entry with a longer maximum and
\* after the earlier entries with the same maximum
SortPosition(configs, i) ==
  1 + Cardinality({ j \in DOMAIN configs :
        \/ MaxKeywordLength(configs[j]) > MaxKeywordLength(configs[i])
        \/ /\ MaxKeywordLength(configs[j]) = MaxKeywordLength(configs[i])
           /\ j < i })

\* the registry searched in the order it is written, without the sort
sortedConfigs_Unsorted ==
  ECHARTS_TYPE_CONFIGS

sortedConfigs ==
  Array([p \in RegistryIndex |->
     ECHARTS_TYPE_CONFIGS[
       CHOOSE i \in RegistryIndex : SortPosition(ECHARTS_TYPE_CONFIGS, i) = p]])

\* zero or more whitespace characters, then w, from position j of s; the
\* result is the set of positions right after w
AfterSpacesThen(s, j, w) ==
  { k + Len(w) : k \in { k \in j..(Len(s) + 1) :
        /\ \A m \in j..(k - 1) : IsSpace(s[m])
        /\ MatchAt(w, s, k) } }

\* promptLower.match(/\b(dual|multiple)\s*(trendline|trend\s*line)\b/)
MultiTrendRegex(s) ==
  \E i \in 1..Len(s) :
    /\ WordBoundary(s, i)
    /\ \E q \in { <<"d","u","a","l">>, <<"m","u","l","t","i","p","l","e">> } :
         /\ MatchAt(q, s, i)
         /\ LET j == i + Len(q)
            IN \/ \E e \in AfterSpacesThen(s, j, <<"t","r","e","n","d","l","i","n","e">>) :
                    WordBoundary(s, e)
               \/ \E t \in AfterSpacesThen(s, j, <<"t","r","e","n","d">>) :
                    \E e \in AfterSpacesThen(s, t, <<"l","i","n","e">>) :
                      WordBoundary(s, e)

\* the condition of the first branch of the trendline check
IsMultipleTrendline(promptLower) ==
  \/ Includes(promptLower, <<"d","u","a","l"," ","t","r","e","n","d","l","i","n","e">>)
  \/ Includes(promptLower, <<"m","u","l","t","i","p","l","e"," ","t","r","e","n","d","l","i","n","e">>)
  \/ MultiTrendRegex(promptLower)

\* the search with "line" as the type returned when no keyword matches
FirstMatch_DefaultLine(configs, promptLower) ==
  LET hits == { p \in DOMAIN configs :
                  \E k \in DOMAIN configs[p].keywords :
                    KeywordRegexTest(configs[p].keywords[k], promptLower) }
  IN IF hits = {} THEN "line"
     ELSE configs[CHOOSE p \in hits : \A q \in hits : p <= q].chartType

\* the chart type of the first entry, in the order of configs, one of whose
\* keywords matches; "bar" when there is none
FirstMatch(configs, promptLower) ==
  LET hits == { p \in DOMAIN configs :
                  \E k \in DOMAIN configs[p].keywords :
                    KeywordRegexTest(configs[p].keywords[k], promptLower) }
  IN IF hits = {} THEN "bar"
     ELSE configs[CHOOSE p \in hits : \A q \in hits : p <= q].chartType

detectEChartsType(promptText) ==
  LET promptLower == Trim(ToLowerCase(promptText))
  IN IF IsMultipleTrendline(promptLower) THEN "line"
     ELSE FirstMatch(sortedConfigs, promptLower)

\* ECHARTS_TYPE_CONFIGS[chartType] || null
HasEChartsConfig(chartType) ==
  chartType \in RegisteredTypes

----------------------------------------------------------------------------
(* JSON values and JavaScript objects                                      *)

Num(n) == <<"num", n>>

Str(s) == <<"str", s>>

Null == <<"null">>

Arr(elems) == <<"arr", elems>>

Obj(pairs) == <<"obj", pairs>>

\* the falsy "no key" of the source: undefined or the empty string
NoKey == <<>>

\* Object.keys of an object given as a sequence of <<key, value>> pairs
Keys(pairs) ==
  Array([i \in DOMAIN pairs |-> pairs[i][1]])

HasKey(pairs, key) ==
  \E i \in DOMAIN pairs : pairs[i][1] = key

\* item[key]; <<"undef">> stands for undefined
Get(pairs, key) ==
  IF HasKey(pairs, key)
    THEN pairs[CHOOSE i \in DOMAIN pairs : pairs[i][1] = key][2]
    ELSE <<"undef">>

\* result[key] = value: an existing key keeps its place, a new key is added
\* at the end
Put(pairs, key, value) ==
  IF HasKey(pairs, key)
    THEN Array([i \in DOMAIN pairs |->
            IF pairs[i][1] = key THEN <<key, value>> ELSE pairs[i]])
    ELSE Append(pairs, <<key, value>>)

RECURSIVE ToDigits(_)
ToDigits(n) ==
  IF n < 10 THEN <<DigitSeq[n + 1]>>
  ELSE Append(ToDigits(n \div 10), DigitSeq[(n % 10) + 1])

\* String(n) and `${n}` for an integer n
NumberToString(n) ==
  IF n < 0 THEN <<"-">> \o ToDigits(0 - n) ELSE ToDigits(n)

----------------------------------------------------------------------------
(* Flattener                                                               *)

\* the test with numbers as the only primitives
IsPrimitiveItem_NumberOnly(v) ==
  v[1] = "num"

\* typeof firstItem is "number", "string" or "boolean"
IsPrimitiveItem(v) ==
  v[1] \in {"num", "str", "bool"}

RECURSIVE flattenObject(_, _, _)
RECURSIVE FlattenEntries(_, _, _)
RECURSIVE FlattenItems(_, _, _, _)
RECURSIVE FlattenItems_Unindexed(_, _, _, _)

\* the forEach with every element flattened under the key of the array
FlattenItems_Unindexed(items, idx, newKey, result) ==
  IF idx >= Len(items) THEN result
  ELSE FlattenItems_Unindexed(items, idx + 1, newKey,
         IF items[idx + 1][1] = "obj"
           THEN flattenObject(items[idx + 1], newKey, result)
           ELSE result)

\* the forEach over an array of objects: element idx (0-based) is flattened
\* under `${newKey}[${idx}]` when it is a non-null, non-array object
FlattenItems(items, idx, newKey, result) ==
  IF idx >= Len(items) THEN result
  ELSE LET item == items[idx + 1]
           itemKey == newKey \o <<"[">> \o NumberToString(idx) \o <<"]">>
           next == IF item[1] = "obj"
                     THEN flattenObject(item, itemKey, result)
                     ELSE result
       IN FlattenItems(items, idx + 1, newKey, next)

\* the for-in loop over the own properties of the object
FlattenEntries(pairs, prefix, result) ==
  IF pairs = <<>> THEN result
  ELSE LET key == pairs[1][1]
           value == pairs[1][2]
           newKey == IF prefix # <<>> THEN prefix \o <<".">> \o key ELSE key
           next ==
             IF value[1] \in {"null", "undef"} THEN Put(result, newKey, value)
             ELSE IF value[1] = "arr"
               THEN IF Len(value[2]) > 0
                      THEN IF IsPrimitiveItem(value[2][1])
                             THEN Put(result, newKey, value)
                           ELSE IF value[2][1][1] \in {"obj", "arr"}
                             THEN FlattenItems(value[2], 0, newKey, result)
                           ELSE result
                      ELSE result
             ELSE IF value[1] = "obj"
               THEN flattenObject(value, newKey, result)
             ELSE Put(result, newKey, value)
       IN FlattenEntries(Tail(pairs), prefix, next)

flattenObject(obj, prefix, result) ==
  IF obj[1] # "obj" THEN result
  ELSE FlattenEntries(obj[2], prefix, result)

----------------------------------------------------------------------------
(* Field classifier (the dataKeys memo)                                    *)

\* /name|label|...|tag/i of the name-key detection
NamePattern ==
  { <<"n","a","m","e">>, <<"l","a","b","e","l">>,
    <<"c","a","t","e","g","o","r","y">>, <<"t","i","t","l","e">>,
    <<"i","d">>, <<"k","e","y">>,
    <<"a","g","e","n","t">>, <<"m","o","n","t","h">>,
    <<"d","a","y">>, <<"d","a","t","e">>,
    <<"t","i","m","e">>, <<"y","e","a","r">>,
    <<"p","e","r","i","o","d">>, <<"q","u","a","r","t","e","r">>,
    <<"w","e","e","k">>, <<"s","e","a","s","o","n">>,
    <<"l","o","c","a","t","i","o","n">>, <<"r","e","g","i","o","n">>,
    <<"c","o","u","n","t","r","y">>, <<"c","i","t","y">>,
    <<"s","t","a","t","e">>, <<"p","r","o","d","u","c","t">>,
    <<"i","t","e","m">>, <<"t","y","p","e">>,
    <<"c","l","a","s","s">>, <<"g","r","o","u","p">>,
    <<"t","e","a","m">>, <<"d","e","p","a","r","t","m","e","n","t">>,
    <<"c","a","t","e","g","o","r","y">>, <<"t","a","g">> }

\* /value|amount|...|frequency/i of the value-key detection
ValuePattern ==
  { <<"v","a","l","u","e">>, <<"a","m","o","u","n","t">>,
    <<"c","o","u","n","t">>, <<"t","o","t","a","l">>,
    <<"s","u","m">>, <<"q","u","a","n","t","i","t","y">>,
    <<"n","u","m","b","e","r">>, <<"p","r","i","c","e">>,
    <<"c","o","s","t">>, <<"r","e","v","e","n","u","e">>,
    <<"s","a","l","e","s">>, <<"s","c","o","r","e">>,
    <<"r","a","t","i","n","g">>, <<"i","n","t","e","r","a","c","t","i","o","n">>,
    <<"k","p","i">>, <<"s","a","t","i","s","f","a","c","t","i","o","n">>,
    <<"m","e","t","r","i","c">>, <<"m","e","a","s","u","r","e">>,
    <<"d","a","t","a">>, <<"r","e","s","u","l","t">>,
    <<"o","u","t","c","o","m","e">>, <<"p","e","r","f","o","r","m","a","n","c","e">>,
    <<"e","f","f","i","c","i","e","n","c","y">>, <<"r","a","t","e">>,
    <<"p","e","r","c","e","n","t","a","g","e">>, <<"p","e","r","c","e","n","t">>,
    <<"r","a","t","i","o">>, <<"i","n","d","e","x">>,
    <<"l","e","v","e","l">>, <<"s","i","z","e">>,
    <<"v","o","l","u","m","e">>, <<"w","e","i","g","h","t">>,
    <<"l","e","n","g","t","h">>, <<"h","e","i","g","h","t">>,
    <<"w","i","d","t","h">>, <<"d","e","p","t","h">>,
    <<"a","r","e","a">>, <<"d","i","s","t","a","n","c","e">>,
    <<"s","p","e","e","d">>, <<"t","i","m","e">>,
    <<"d","u","r","a","t","i","o","n">>, <<"f","r","e","q","u","e","n","c","y">> }

\* pattern.test(key) for a case-insensitive alternation of plain words
PatternTest(pattern, key) ==
  \E w \in pattern : Includes(ToLowerCase(key), w)

IsDigits(s) ==
  \A i \in DOMAIN s : s[i] \in Range(DigitSeq)

\* !isNaN(Date.parse(value)).  An ISO calendar date YYYY-MM-DD parses; a
\* string without any digit does not.  The data sets of this model hold no
\* other kind of string.
IsDateString(s) ==
  /\ Len(s) = 10
  /\ s[5] = "-"
  /\ s[8] = "-"
  /\ IsDigits(SubSeq(s, 1, 4))
  /\ IsDigits(SubSeq(s, 6, 7))
  /\ IsDigits(SubSeq(s, 9, 10))

\* Array.prototype.find, NoKey when nothing is found
Find(seq, Test(_)) ==
  LET hits == SelectSeq(seq, Test)
  IN IF hits = <<>> THEN NoKey ELSE hits[1]

\* the last element in place of the first
First_Last(seq) ==
  IF seq = <<>> THEN NoKey ELSE seq[Len(seq)]

\* seq[0], NoKey (undefined) for an empty array
First(seq) ==
  IF seq = <<>> THEN NoKey ELSE seq[1]

\* a || b that yields its second operand whatever the first is
OrElse_Second(a, b) ==
  b

\* a || b on keys
OrElse(a, b) ==
  IF a # NoKey THEN a ELSE b

ComputeDataKeys(records) ==
  IF records = <<>>
    THEN [allKeys |-> <<>>, numericKeys |-> <<>>, stringKeys |-> <<>>,
          dateKeys |-> <<>>, nameKey |-> NoKey, valueKey |-> NoKey,
          flattenedData |-> <<>>]
    ELSE
      LET flattened == flattenObject(records[1], <<>>, <<>>)
          allKeys == Keys(flattened)
          IsNumeric(k) == Get(flattened, k)[1] = "num"
          IsString(k) == Get(flattened, k)[1] = "str"
          IsDate(k) == IsString(k) /\ IsDateString(Get(flattened, k)[2])
          numericKeys == SelectSeq(allKeys, IsNumeric)
          stringKeys == SelectSeq(allKeys, IsString)
          dateKeys == SelectSeq(allKeys, IsDate)
          IsNameLike(k) == PatternTest(NamePattern, k)
          IsValueLike(k) == PatternTest(ValuePattern, k)
          nameKey == OrElse(Find(stringKeys, IsNameLike),
                       OrElse(First(dateKeys),
                         OrElse(First(stringKeys), First(allKeys))))
          valueKey == OrElse(Find(numericKeys, IsValueLike),
                        OrElse(First(numericKeys), NoKey))
      IN [allKeys |-> allKeys, numericKeys |-> numericKeys,
          stringKeys |-> stringKeys, dateKeys |-> dateKeys,
          nameKey |-> nameKey, valueKey |-> valueKey,
          flattenedData |->
            Array([i \in DOMAIN records |-> flattenObject(records[i], <<>>, <<>>)])]

----------------------------------------------------------------------------
(* Fingerprint of the (data, prompt) pair                                  *)

RECURSIVE Stringify(_)
RECURSIVE StringifyList(_, _)

\* the comma-separated rendering of array elements (asObject = FALSE) or of
\* "key":value members (asObject = TRUE); a member whose value is undefined
\* is left out of an object
StringifyList(items, asObject) ==
  IF items = <<>> THEN <<>>
  ELSE LET one == IF asObject
                    THEN <<"\"">> \o items[1][1] \o <<"\"", ":">>
                           \o Stringify(items[1][2])
                    ELSE Stringify(items[1])
           rest == StringifyList(Tail(items), asObject)
       IN IF rest = <<>> THEN one ELSE one \o <<",">> \o rest

\* JSON.stringify for values whose strings hold no quote, backslash or
\* control character
Stringify(v) ==
  CASE v[1] = "num" -> NumberToString(v[2])
    [] v[1] = "str" -> <<"\"">> \o v[2] \o <<"\"">>
    [] v[1] = "bool" -> IF v[2] THEN <<"t","r","u","e">> ELSE <<"f","a","l","s","e">>
    [] v[1] = "null" -> <<"n","u","l","l">>
    [] v[1] = "arr" -> <<"[">> \o StringifyList(v[2], FALSE) \o <<"]">>
    [] v[1] = "obj" ->
         <<"{">>
           \o StringifyList(SelectSeq(v[2], LAMBDA m : m[2][1] # "undef"), TRUE)
           \o <<"}">>

\* the length of both slices of the serialized data
HashSliceLength == 100

\* dataStr.slice(0, 100)
SliceStart(s) ==
  SubSeq(s, 1, IF Len(s) < HashSliceLength THEN Len(s) ELSE HashSliceLength)

\* dataStr.slice(-100)
SliceEnd(s) ==
  SubSeq(s, IF Len(s) < HashSliceLength THEN 1
            ELSE Len(s) - HashSliceLength + 1, Len(s))

\* the dataPromptHash memo; the empty string when there is nothing to chart
dataPromptHash(records, promptText) ==
  IF records = <<>> \/ promptText = <<>> THEN <<>>
  ELSE LET dataStr == Stringify(Arr(records))
       IN Trim(promptText) \o <<"_">> \o NumberToString(Len(records)) \o <<"_">>
            \o NumberToString(Len(dataStr)) \o <<"_">> \o SliceStart(dataStr)
            \o <<"_">> \o SliceEnd(dataStr)

----------------------------------------------------------------------------
(* Prompt interpreter: trendline flags, field mentions, colors             *)

\* the condition of the else-if branch of the trendline check; the regular
\* expression /\b(trendline|trend\s*line|regression)\b/ only matches strings
\* that one of the includes() tests accepts as well, except "trend" and
\* "line" separated by whitespace other than one space
SingleTrendRegex(s) ==
  \E i \in 1..Len(s) :
    /\ WordBoundary(s, i)
    /\ \/ MatchAt(<<"t","r","e","n","d","l","i","n","e">>, s, i) /\ WordBoundary(s, i + 9)
       \/ MatchAt(<<"r","e","g","r","e","s","s","i","o","n">>, s, i) /\ WordBoundary(s, i + 10)
       \/ /\ MatchAt(<<"t","r","e","n","d">>, s, i)
          /\ \E e \in AfterSpacesThen(s, i + 5, <<"l","i","n","e">>) : WordBoundary(s, e)

IsSingleTrendline(promptLower) ==
  \/ Includes(promptLower, <<"t","r","e","n","d","l","i","n","e">>)
  \/ Includes(promptLower, <<"t","r","e","n","d"," ","l","i","n","e">>)
  \/ Includes(promptLower, <<"r","e","g","r","e","s","s","i","o","n">>)
  \/ Includes(promptLower, <<"l","i","n","e","a","r"," ","t","r","e","n","d">>)
  \/ SingleTrendRegex(promptLower)

\* the maximal run of \w characters of s that starts at position i
WordRunEnd(s, i) ==
  CHOOSE e \in i..Len(s) :
    /\ \A k \in i..e : IsWordChar(s[k])
    /\ e = Len(s) \/ ~IsWordChar(s[e + 1])

\* the position after the maximal run of whitespace that starts at position
\* j, 0 when s has no whitespace at j
AfterSpaces(s, j) ==
  IF j > Len(s) \/ ~IsSpace(s[j]) THEN 0
  ELSE CHOOSE e \in (j + 1)..(Len(s) + 1) :
         /\ \A k \in j..(e - 1) : IsSpace(s[k])
         /\ e = Len(s) + 1 \/ ~IsSpace(s[e])

\* the alternation (?:vs|versus|and|&), tried in this order
VsConnectors ==
  << <<"v","s">>, <<"v","e","r","s","u","s">>, <<"a","n","d">>, <<"&">> >>

\* /(\w+)\s+(?:vs|versus|and|&)\s+(\w+)/i tried at start position i: the two
\* captured groups, or <<>> when the expression does not match from i
VsMatchFrom(s, i) ==
  IF ~IsWordChar(s[i]) THEN <<>>
  ELSE
    LET e1 == WordRunEnd(s, i)
        c == AfterSpaces(s, e1 + 1)
        ok(n) == /\ c # 0
                 /\ MatchAt(VsConnectors[n], ToLowerCase(s), c)
                 /\ AfterSpaces(s, c + Len(VsConnectors[n])) # 0
                 /\ AfterSpaces(s, c + Len(VsConnectors[n])) <= Len(s)
                 /\ IsWordChar(s[AfterSpaces(s, c + Len(VsConnectors[n]))])
        hits == { n \in DOMAIN VsConnectors : ok(n) }
    IN IF hits = {} THEN <<>>
       ELSE LET n == CHOOSE n \in hits : \A m \in hits : n <= m
                b == AfterSpaces(s, c + Len(VsConnectors[n]))
            IN << SubSeq(s, i, e1), SubSeq(s, b, WordRunEnd(s, b)) >>

\* prompt.match(vsPattern): the leftmost match
VsMatch(s) ==
  LET starts == { i \in 1..Len(s) : VsMatchFrom(s, i) # <<>> }
  IN IF starts = {} THEN <<>>
     ELSE VsMatchFrom(s, CHOOSE i \in starts : \A j \in starts : i <= j)

\* s.replace(/[...]/g, to) for a set of single characters
ReplaceChars(s, chars, to) ==
  Join(Array([i \in DOMAIN s |-> IF s[i] \in chars THEN to ELSE <<s[i]>>]), <<>>)

\* word.replace(/[^a-z0-9]/g, "")
KeepAlnum(s) ==
  SelectSeq(s, LAMBDA ch : ch \in Range(LowerSeq) \cup Range(DigitSeq))

\* the predicate of the two allKeys.find calls of the "A vs B" detection
FuzzyKeyMatch(k, word) ==
  LET kLower == ToLowerCase(k)
      wLower == ToLowerCase(word)
  IN \/ kLower = wLower
     \/ Includes(kLower, wLower)
     \/ Includes(wLower, kLower)
     \/ ReplaceChars(kLower, {"_", "-"}, <<>>)
          = ReplaceChars(wLower, {"_", "-"}, <<>>)

\* .some over an array
Some(seq, Test(_)) ==
  \E i \in DOMAIN seq : Test(seq[i])

\* isMentioned of the direct-mention loop
IsMentioned(key, promptLower) ==
  LET keyLower == ToLowerCase(key)
      keyFormatted == ToLowerCase(ReplaceChars(key, {"_", "-"}, <<" ">>))
      keyNoUnderscore == ReplaceChars(keyLower, {"_", "-"}, <<>>)
      keyParts == SplitBy(keyLower, {".", "_", "-"}, <<>>)
      WordHits(word) ==
        LET wordClean == KeepAlnum(ToLowerCase(word))
        IN /\ Len(wordClean) >= 3
           /\ \/ Includes(keyNoUnderscore, wordClean)
              \/ Includes(wordClean, keyNoUnderscore)
              \/ Some(keyParts, LAMBDA part :
                        Includes(part, wordClean) \/ Includes(wordClean, part))
  IN \/ Includes(promptLower, keyLower)
     \/ Includes(promptLower, keyFormatted)
     \/ Includes(promptLower, ToLowerCase(ReplaceChars(key, {"_"}, <<" ">>)))
     \/ Includes(promptLower, ToLowerCase(ReplaceChars(key, {"."}, <<" ">>)))
     \/ Some(keyParts, LAMBDA part :
               Len(part) >= 3 /\ Includes(promptLower, part))
     \/ Some(SplitWhitespace(promptLower), WordHits)

\* mentionedKeys.push(key) guarded by !mentionedKeys.includes(key)
PushUnique(seq, key) ==
  IF \E i \in DOMAIN seq : seq[i] = key THEN seq ELSE Append(seq, key)

\* mentionedKeys after the "A vs B" detection; vsMatch is bound to the
\* value of prompt.match(vsPattern)
VsMentionedKeys(promptText, allKeys) ==
  The({ IF vsMatch = <<>> THEN <<>>
        ELSE LET foundKey1 == Find(allKeys, LAMBDA k : FuzzyKeyMatch(k, vsMatch[1]))
                 foundKey2 == Find(allKeys, LAMBDA k : FuzzyKeyMatch(k, vsMatch[2]))
                 m1 == IF foundKey1 # NoKey THEN <<foundKey1>> ELSE <<>>
             IN IF foundKey2 # NoKey THEN PushUnique(m1, foundKey2) ELSE m1 :
        vsMatch \in {VsMatch(promptText)} })

RECURSIVE PushMentioned(_, _, _)
\* the allKeys.forEach of the direct-mention detection
PushMentioned(keys, promptLower, mentionedKeys) ==
  IF keys = <<>> THEN mentionedKeys
  ELSE PushMentioned(Tail(keys), promptLower,
         IF IsMentioned(Head(keys), promptLower)
           THEN PushUnique(mentionedKeys, Head(keys))
           ELSE mentionedKeys)

MentionedKeys(promptText, allKeys) ==
  PushMentioned(allKeys, Trim(ToLowerCase(promptText)),
                VsMentionedKeys(promptText, allKeys))

\* the pattern of the mentionedNameKey test
MentionedNamePattern ==
  { <<"n","a","m","e">>, <<"l","a","b","e","l">>,
    <<"c","a","t","e","g","o","r","y">>, <<"t","i","t","l","e">>,
    <<"i","d">>, <<"k","e","y">>,
    <<"a","g","e","n","t">>, <<"p","e","r","i","o","d">>,
    <<"q","u","a","r","t","e","r">>, <<"w","e","e","k">>,
    <<"s","e","a","s","o","n">>, <<"l","o","c","a","t","i","o","n">>,
    <<"r","e","g","i","o","n">>, <<"c","o","u","n","t","r","y">>,
    <<"c","i","t","y">>, <<"s","t","a","t","e">>,
    <<"p","r","o","d","u","c","t">>, <<"i","t","e","m">>,
    <<"t","y","p","e">>, <<"c","l","a","s","s">>,
    <<"g","r","o","u","p">>, <<"t","e","a","m">>,
    <<"d","e","p","a","r","t","m","e","n","t">>, <<"t","a","g">> }

\* the pattern of the mentionedValueKeys filter
MentionedValuePattern ==
  { <<"v","a","l","u","e">>, <<"a","m","o","u","n","t">>,
    <<"c","o","u","n","t">>, <<"t","o","t","a","l">>,
    <<"s","u","m">>, <<"q","u","a","n","t","i","t","y">>,
    <<"n","u","m","b","e","r">>, <<"p","r","i","c","e">>,
    <<"c","o","s","t">>, <<"r","e","v","e","n","u","e">>,
    <<"s","a","l","e","s">>, <<"s","c","o","r","e">>,
    <<"r","a","t","i","n","g">>, <<"i","n","t","e","r","a","c","t","i","o","n">>,
    <<"k","p","i">>, <<"s","a","t","i","s","f","a","c","t","i","o","n">>,
    <<"m","e","t","r","i","c">>, <<"m","e","a","s","u","r","e">>,
    <<"d","a","t","a">>, <<"r","e","s","u","l","t">>,
    <<"o","u","t","c","o","m","e">>, <<"p","e","r","f","o","r","m","a","n","c","e">>,
    <<"e","f","f","i","c","i","e","n","c","y">>, <<"r","a","t","e">>,
    <<"p","e","r","c","e","n","t","a","g","e">>, <<"p","e","r","c","e","n","t">>,
    <<"r","a","t","i","o">>, <<"i","n","d","e","x">>,
    <<"l","e","v","e","l">>, <<"s","i","z","e">>,
    <<"v","o","l","u","m","e">>, <<"w","e","i","g","h","t">>,
    <<"l","e","n","g","t","h">>, <<"h","e","i","g","h","t">>,
    <<"w","i","d","t","h">>, <<"d","e","p","t","h">>,
    <<"a","r","e","a">>, <<"d","i","s","t","a","n","c","e">>,
    <<"s","p","e","e","d">>, <<"t","i","m","e">>,
    <<"d","u","r","a","t","i","o","n">>, <<"f","r","e","q","u","e","n","c","y">> }

Contains(seq, x) ==
  \E i \in DOMAIN seq : seq[i] = x

\* the condition of the comparison block apart from the count of numeric keys
HasComparisonWord(promptLower) ==
  \/ Includes(promptLower, <<" ","v","s"," ">>)
  \/ Includes(promptLower, <<" ","v","e","r","s","u","s"," ">>)
  \/ Includes(promptLower, <<" ","a","n","d"," ">>)

\* nameKeyToUse, valueKeyToUse and dataKeysToUse (NoKey for undefined) for
\* the mentioned keys and the words of the prompt
ResolveMentioned(promptLower, dataKeys, multipleTrendlines, mentionedKeys, promptWords) ==
  LET mentionedNameKey ==
        Find(mentionedKeys, LAMBDA key :
               \/ Contains(dataKeys.stringKeys, key)
               \/ Contains(dataKeys.dateKeys, key)
               \/ PatternTest(MentionedNamePattern, key))
      mentionedValueKeys ==
        SelectSeq(mentionedKeys, LAMBDA key :
               \/ Contains(dataKeys.numericKeys, key)
               \/ PatternTest(MentionedValuePattern, key))
      name1 == IF mentionedKeys # <<>> /\ mentionedNameKey # NoKey
                 THEN mentionedNameKey ELSE dataKeys.nameKey
      value1 == IF mentionedKeys # <<>> /\ mentionedValueKeys # <<>>
                  THEN mentionedValueKeys[1] ELSE dataKeys.valueKey
      keys1 == IF mentionedKeys # <<>> /\ Len(mentionedValueKeys) > 1
                 THEN Join(mentionedValueKeys, <<",">>) ELSE NoKey
      matchingKeys ==
        SelectSeq(dataKeys.numericKeys, LAMBDA key :
          Some(promptWords, LAMBDA word :
            /\ Len(word) >= 3
            /\ \/ Includes(ToLowerCase(key), word)
               \/ Includes(word, ToLowerCase(key))))
      compare == /\ HasComparisonWord(promptLower) \/ multipleTrendlines
                 /\ Len(dataKeys.numericKeys) >= 2
  IN [mentionedKeys |-> mentionedKeys,
      nameKey |-> name1,
      valueKey |-> IF ~compare THEN value1
                   ELSE IF Len(matchingKeys) >= 2 THEN matchingKeys[1]
                   ELSE dataKeys.numericKeys[1],
      dataKeys |-> IF ~compare THEN keys1
                   ELSE IF Len(matchingKeys) >= 2
                     THEN Join(matchingKeys, <<",">>)
                   ELSE Join(SubSeq(dataKeys.numericKeys, 1, 2), <<",">>),
      \* the array that join(",") turned into dataKeysToUse, <<>> if none
      fieldList |-> IF ~compare
                      THEN IF mentionedKeys # <<>> /\ Len(mentionedValueKeys) > 1
                             THEN mentionedValueKeys ELSE <<>>
                    ELSE IF Len(matchingKeys) >= 2 THEN matchingKeys
                    ELSE SubSeq(dataKeys.numericKeys, 1, 2)]

\* the key resolution of the effect for the prompt and the classification
\* dataKeys, which is a value
ResolveKeys(promptText, dataKeys, multipleTrendlines) ==
  The({ ResolveMentioned(promptLower, dataKeys, multipleTrendlines,
                         mentionedKeys, promptWords) :
        promptLower \in {Trim(ToLowerCase(promptText))},
        mentionedKeys \in {MentionedKeys(promptText, dataKeys.allKeys)},
        promptWords \in {SplitWhitespace(Trim(ToLowerCase(promptText)))} })

----------------------------------------------------------------------------
(* Color extraction                                                        *)

\* colorMap, in the order of its keys
colorMap ==
  <<
    <<<<"r","e","d">>,
      <<"#","f","f","0","0","0","0">>>>,
    <<<<"b","l","u","e">>,
      <<"#","0","0","6","6","f","f">>>>,
    <<<<"g","r","e","e","n">>,
      <<"#","0","0","c","c","0","0">>>>,
    <<<<"y","e","l","l","o","w">>,
      <<"#","f","f","c","c","0","0">>>>,
    <<<<"o","r","a","n","g","e">>,
      <<"#","f","f","6","6","0","0">>>>,
    <<<<"p","u","r","p","l","e">>,
      <<"#","9","9","0","0","c","c">>>>,
    <<<<"p","i","n","k">>,
      <<"#","f","f","0","0","c","c">>>>,
    <<<<"t","e","a","l">>,
      <<"#","0","0","c","c","c","c">>>>,
    <<<<"c","y","a","n">>,
      <<"#","0","0","f","f","f","f">>>>,
    <<<<"m","a","g","e","n","t","a">>,
      <<"#","f","f","0","0","f","f">>>>,
    <<<<"l","i","m","e">>,
      <<"#","0","0","f","f","0","0">>>>,
    <<<<"b","r","o","w","n">>,
      <<"#","8","b","4","5","1","3">>>>,
    <<<<"b","l","a","c","k">>,
      <<"#","0","0","0","0","0","0">>>>,
    <<<<"w","h","i","t","e">>,
      <<"#","f","f","f","f","f","f">>>>,
    <<<<"g","r","a","y">>,
      <<"#","8","0","8","0","8","0">>>>,
    <<<<"g","r","e","y">>,
      <<"#","8","0","8","0","8","0">>>>,
    <<<<"n","a","v","y">>,
      <<"#","0","0","0","0","8","0">>>>,
    <<<<"m","a","r","o","o","n">>,
      <<"#","8","0","0","0","0","0">>>>,
    <<<<"o","l","i","v","e">>,
      <<"#","8","0","8","0","0","0">>>>,
    <<<<"a","q","u","a">>,
      <<"#","0","0","f","f","f","f">>>>,
    <<<<"s","i","l","v","e","r">>,
      <<"#","c","0","c","0","c","0">>>>,
    <<<<"g","o","l","d">>,
      <<"#","f","f","d","7","0","0">>>>,
    <<<<"i","n","d","i","g","o">>,
      <<"#","4","b","0","0","8","2">>>>,
    <<<<"v","i","o","l","e","t">>,
      <<"#","8","a","2","b","e","2">>>>,
    <<<<"c","o","r","a","l">>,
      <<"#","f","f","7","f","5","0">>>>,
    <<<<"s","a","l","m","o","n">>,
      <<"#","f","a","8","0","7","2">>>>,
    <<<<"t","u","r","q","u","o","i","s","e">>,
      <<"#","4","0","e","0","d","0">>>>,
    <<<<"k","h","a","k","i">>,
      <<"#","f","0","e","6","8","c">>>>,
    <<<<"l","a","v","e","n","d","e","r">>,
      <<"#","e","6","e","6","f","a">>>>,
    <<<<"p","l","u","m">>,
      <<"#","d","d","a","0","d","d">>>>,
    <<<<"b","e","i","g","e">>,
      <<"#","f","5","f","5","d","c">>>>,
    <<<<"t","a","n">>,
      <<"#","d","2","b","4","8","c">>>>
  >>

HexDigits ==
  Range(DigitSeq) \cup {"a", "b", "c", "d", "e", "f",
                        "A", "B", "C", "D", "E", "F"}

\* the number of hex digits (at most 6) that follow position i of s
HexRun(s, i) ==
  CHOOSE n \in 0..6 :
    /\ \A k \in 1..n : i + k <= Len(s) /\ s[i + k] \in HexDigits
    /\ n = 6 \/ i + n + 1 > Len(s) \/ s[i + n + 1] \notin HexDigits

RECURSIVE HexMatches(_, _)
\* promptText.match(/#[0-9a-f]{3,6}/gi): the successive matches from
\* position i on, scanning left to right without overlap
HexMatches(s, i) ==
  IF i > Len(s) THEN <<>>
  ELSE IF s[i] = "#" /\ HexRun(s, i) >= 3
    THEN <<SubSeq(s, i, i + HexRun(s, i))>>
           \o HexMatches(s, i + HexRun(s, i) + 1)
  ELSE HexMatches(s, i + 1)

\* the conversion of one hex match: #rgb becomes #rrggbb, any other match
\* is kept as written
NormalizeHex(hex) ==
  IF Len(hex) = 4
    THEN <<"#", hex[2], hex[2], hex[3], hex[3], hex[4], hex[4]>>
    ELSE hex

\* the end of the match of /rgba?\([^)]+\)/i that starts at position i of
\* s, 0 when there is none
RgbMatchEnd(s, i) ==
  LET low == ToLowerCase(s)
      open == IF MatchAt(<<"r","g","b","a","(">>, low, i) THEN i + 4
              ELSE IF MatchAt(<<"r","g","b","(">>, low, i) THEN i + 3
              ELSE 0
      closes == { e \in (open + 2)..Len(s) :
                    s[e] = ")" /\ \A k \in (open + 1)..(e - 1) : s[k] # ")" }
  IN IF open = 0 \/ closes = {} THEN 0 ELSE CHOOSE e \in closes : TRUE

RECURSIVE RgbMatches(_, _)
\* promptText.match(/rgba?\([^)]+\)/gi)
RgbMatches(s, i) ==
  IF i > Len(s) THEN <<>>
  ELSE IF RgbMatchEnd(s, i) # 0
    THEN <<SubSeq(s, i, RgbMatchEnd(s, i))>> \o RgbMatches(s, RgbMatchEnd(s, i) + 1)
  ELSE RgbMatches(s, i + 1)

\* the found colors with their duplicates kept
Unique_KeepAll(seq) ==
  seq

RECURSIVE Unique(_)
\* Array.from(new Set(foundColors)): first occurrences, in order
Unique(seq) ==
  IF seq = <<>> THEN <<>>
  ELSE LET init == Unique(SubSeq(seq, 1, Len(seq) - 1))
       IN PushUnique(init, seq[Len(seq)])

\* extractColors; <<>> stands for undefined (no color found)
extractColors(promptText) ==
  LET named == SelectSeq(colorMap, LAMBDA entry :
                 KeywordRegexTest(entry[1], promptText))
      hexes == HexMatches(promptText, 1)
      foundColors ==
        Array([i \in DOMAIN named |-> named[i][2]])
          \o Array([i \in DOMAIN hexes |-> NormalizeHex(hexes[i])])
          \o RgbMatches(promptText, 1)
  IN Unique(foundColors)

----------------------------------------------------------------------------
(* Color palette                                                           *)

\* the number of colors the assembler asks for, and the least number the
\* cache generates
PaletteSize == 20

\* the number of colors generated for the trendlines of one option
TrendPaletteSize == 10

\* Math.random is a finite family of streams: the color at position k of
\* stream seed.  hue is in 0..359, saturation in 60..99, lightness in 40..69
generateRandomColor(seed, k) ==
  LET hue == (seed * 97 + k * 61) % 360
      saturation == 60 + ((seed * 31 + k * 17) % 40)
      lightness == 40 + ((seed * 13 + k * 7) % 30)
  IN <<"h","s","l","(">> \o NumberToString(hue) \o <<","," ">> \o NumberToString(saturation)
       \o <<"%",","," ">> \o NumberToString(lightness) \o <<"%",")">>

generateRandomColors(count, seed) ==
  Array([k \in 1..count |-> generateRandomColor(seed, k)])

\* a palette generated on every call and never stored
getRandomColorPalette_Uncached(cache, count, seed) ==
  [cachedColors |-> cache, colors |-> generateRandomColors(count, seed)]

\* getRandomColorPalette(count) called with the cache in the state cache:
\* the array it returns and the cache it leaves; seed is the stream that
\* generateRandomColors reads if it is called
getRandomColorPalette(cache, count, seed) ==
  LET filled == IF Len(cache) < count
                  THEN generateRandomColors(
                         IF count > PaletteSize THEN count ELSE PaletteSize, seed)
                  ELSE cache
  IN [cachedColors |-> filled, colors |-> SubSeq(filled, 1, count)]

----------------------------------------------------------------------------
(* Option builders of the registry                                         *)

\* typeof val === "number" ? val : 0
NumberOrZero(val) ==
  IF val[1] = "num" THEN val[2] ELSE 0

\* String(item[nameKey] || "")
LabelOf(item, nameKey) ==
  LET val == Get(item, nameKey)
  IN CASE val[1] = "str" -> val[2]
       [] val[1] = "num" -> IF val[2] = 0 THEN <<>> ELSE NumberToString(val[2])
       [] val[1] = "bool" -> IF val[2] THEN <<"t","r","u","e">> ELSE <<>>
       [] val[1] = "arr" -> Join([i \in DOMAIN val[2] |->
                                   IF val[2][i][1] = "str" THEN val[2][i][2]
                                   ELSE IF val[2][i][1] = "num"
                                     THEN NumberToString(val[2][i][2])
                                   ELSE IF val[2][i][1] = "bool"
                                     THEN (IF val[2][i][2] THEN <<"t","r","u","e">>
                                           ELSE <<"f","a","l","s","e">>)
                                   ELSE <<>>], <<",">>)
       [] OTHER -> <<>>

\* config.colors[idx % config.colors.length] for a 0-based idx
ColorAt(colors, idx) ==
  colors[(idx % Len(colors)) + 1]

\* config.dataKeys || [config.valueKey]
SeriesKeys(config) ==
  IF config.dataKeys # <<>> THEN config.dataKeys ELSE <<config.valueKey>>

\* config.data.map((item) => typeof item[key] === "number" ? item[key] : 0)
ColumnOf(config, key) ==
  Array([r \in DOMAIN config.data |-> NumberOrZero(Get(config.data[r], key))])

CategoryAxis(config) ==
  Array([r \in DOMAIN config.data |-> LabelOf(config.data[r], config.nameKey)])

\* one series of a categorical-axis chart; stack is <<>> when the series
\* has no stack identifier, else <<identifier>>
CategorySeries(config, type, stacked) ==
  LET keys == SeriesKeys(config)
  IN Array([idx \in DOMAIN keys |->
        [name |-> keys[idx], type |-> type, data |-> ColumnOf(config, keys[idx]),
         color |-> ColorAt(config.colors, idx - 1),
         stack |-> IF stacked THEN <<"stack1">> ELSE <<>>,
         lineType |-> "solid", symbol |-> "default"]])

BarOption(config) ==
  [legend |-> SeriesKeys(config),
   xAxis |-> CategoryAxis(config),
   series |-> CategorySeries(config, "bar", config.isStacked)]

StackedBarOption(config) ==
  [legend |-> SeriesKeys(config),
   xAxis |-> CategoryAxis(config),
   series |-> CategorySeries(config, "bar", TRUE)]

RECURSIVE SumSeq(_)
SumSeq(seq) ==
  IF seq = <<>> THEN 0 ELSE Head(seq) + SumSeq(Tail(seq))

\* the least-squares line through (i, values[i]) for the 0-based positions
\* i, evaluated at every position; a value is the exact fraction
\* <<numerator, denominator>> of slope * i + intercept, the denominator
\* being 0 where the source divides by zero
TrendlineData(values) ==
  LET n == Len(values)
      sumX == SumSeq(Array([i \in 1..n |-> i - 1]))
      sumY == SumSeq(values)
      sumXY == SumSeq(Array([i \in 1..n |-> (i - 1) * values[i]]))
      sumXX == SumSeq(Array([i \in 1..n |-> (i - 1) * (i - 1)]))
      slopeNum == n * sumXY - sumX * sumY
      slopeDen == n * sumXX - sumX * sumX
  IN Array([i \in 1..n |->
        << slopeNum * (i - 1) * n + sumY * slopeDen - slopeNum * sumX,
           slopeDen * n >>])

\* the series pushed for the trendlines
TrendSeries(config, trendSeed) ==
  LET trendlineKeys == IF config.multipleTrendlines /\ config.dataKeys # <<>>
                         THEN config.dataKeys ELSE <<config.valueKey>>
      trendlineColors == generateRandomColors(TrendPaletteSize, trendSeed)
  IN Array([idx \in DOMAIN trendlineKeys |->
        [name |-> trendlineKeys[idx] \o <<" ","T","r","e","n","d">>, type |-> "line",
         data |-> TrendlineData(ColumnOf(config, trendlineKeys[idx])),
         color |-> ColorAt(trendlineColors, idx - 1),
         stack |-> <<>>, lineType |-> "dashed", symbol |-> "none"]])

LineOption(config, trendSeed) ==
  LET keys == SeriesKeys(config)
  IN [legend |-> keys \o (IF config.hasTrendline
                            THEN Array([i \in DOMAIN keys |-> keys[i] \o <<" ","T","r","e","n","d">>])
                            ELSE <<>>),
      xAxis |-> CategoryAxis(config),
      series |-> CategorySeries(config, "line", FALSE)
                   \o (IF config.hasTrendline
                         THEN TrendSeries(config, trendSeed) ELSE <<>>)]

RECURSIVE DigitsValue(_)
DigitsValue(s) ==
  IF s = <<>> THEN 0
  ELSE 10 * DigitsValue(SubSeq(s, 1, Len(s) - 1))
         + (CHOOSE d \in 0..9 : DigitSeq[d + 1] = s[Len(s)])

\* parseFloat(val) || 0 for strings whose numeric prefix is an integer:
\* leading whitespace is skipped, an optional sign and the leading digits
\* are read, and a string without leading digits gives NaN, hence 0
ParseFloatOrZero(s) ==
  LET t == TrimStart(s)
      neg == t # <<>> /\ t[1] = "-"
      u == IF t # <<>> /\ t[1] \in {"-", "+"} THEN Tail(t) ELSE t
      n == CHOOSE n \in 0..Len(u) :
             /\ \A k \in 1..n : u[k] \in Range(DigitSeq)
             /\ n = Len(u) \/ u[n + 1] \notin Range(DigitSeq)
      v == DigitsValue(SubSeq(u, 1, n))
  IN IF neg THEN 0 - v ELSE v

\* the value of one pie entry with every string read as 0
PieValue_NumbersOnly(val) ==
  IF val[1] = "num" THEN val[2] ELSE 0

\* the value of one pie entry
PieValue(val) ==
  IF val[1] = "num" THEN val[2]
  ELSE IF val[1] = "str" THEN ParseFloatOrZero(val[2])
  ELSE 0

\* config.data.map((item, idx) => ({ value, name, itemStyle })): the data
\* of the series of the pie, donut, treemap, funnel and sunburst entries
ValueNameEntries(config) ==
  Array([r \in DOMAIN config.data |->
    [value |-> PieValue(Get(config.data[r], config.valueKey)),
     name |-> LabelOf(config.data[r], config.nameKey),
     color |-> ColorAt(config.colors, r - 1)]])

PieOption(config) ==
  [legend |-> <<>>,
   xAxis |-> <<>>,
   series |-> << [name |-> config.valueKey, type |-> "pie",
                  data |-> ValueNameEntries(config)] >>]

DonutOption(config) ==
  [legend |-> <<>>,
   xAxis |-> <<>>,
   series |-> << [name |-> config.valueKey, type |-> "pie",
                  radius |-> <<"40%", "70%">>,
                  data |-> ValueNameEntries(config)] >>]

TreemapOption(config) ==
  [legend |-> <<>>,
   xAxis |-> <<>>,
   series |-> << [type |-> "treemap", data |-> ValueNameEntries(config)] >>]

\* Math.max(...values) of a non-empty array
MaxOf(values) ==
  CHOOSE m \in Range(values) : \A v \in Range(values) : v <= m

FunnelOption(config) ==
  [legend |-> <<>>,
   xAxis |-> <<>>,
   series |-> << [name |-> config.valueKey, type |-> "funnel",
                  max |-> MaxOf(ColumnOf(config, config.valueKey)),
                  sort |-> "descending",
                  data |-> ValueNameEntries(config)] >>]

SunburstOption(config) ==
  [legend |-> <<>>,
   xAxis |-> <<>>,
   series |-> << [type |-> "sunburst", data |-> ValueNameEntries(config)] >>]

\* the values left in the order of the records
SortAscending_Unsorted(values) ==
  values

RECURSIVE SortAscending(_)
\* values.sort((a, b) => a - b)
SortAscending(values) ==
  IF values = <<>> THEN <<>>
  ELSE LET rest == SortAscending(Tail(values))
           before == SelectSeq(rest, LAMBDA v : v <= Head(values))
           after == SelectSeq(rest, LAMBDA v : v > Head(values))
       IN before \o <<Head(values)>> \o after

\* the sorted values of the value key and the five-number entry of them
BoxplotOption(config) ==
  LET values == SortAscending(ColumnOf(config, config.valueKey))
      q1 == values[((Len(values) * 25) \div 100) + 1]
      median == values[((Len(values) * 5) \div 10) + 1]
      q3 == values[((Len(values) * 75) \div 100) + 1]
      min == values[1]
      max == values[Len(values)]
  IN [legend |-> <<>>,
      xAxis |-> CategoryAxis(config),
      series |-> << [name |-> config.valueKey, type |-> "boxplot",
                     data |-> << <<min, q1, median, q3, max>> >>,
                     color |-> ColorAt(config.colors, 0),
                  color0 |-> OrElse(IF Len(config.colors) >= 2 THEN config.colors[2]
                                    ELSE NoKey, ColorAt(config.colors, 0))] >>]

\* the keys read as open, close, low and high
ohlcKeys(config) ==
  LET keys == SeriesKeys(config)
  IN IF Len(keys) >= 4 THEN SubSeq(keys, 1, 4)
     ELSE <<keys[1],
            OrElse(keys[1], config.valueKey),
            OrElse(keys[1], config.valueKey),
            OrElse(keys[1], config.valueKey)>>

\* Math.min and Math.max of two numbers
Min2(a, b) ==
  IF a <= b THEN a ELSE b

Max2(a, b) ==
  IF a >= b THEN a ELSE b

\* the entry [open, close, low, high] of one record
CandlestickEntry(item, keys) ==
  LET openVal == Get(item, keys[1])
      closeVal == Get(item, keys[2])
      lowVal == Get(item, keys[3])
      highVal == Get(item, keys[4])
      open == NumberOrZero(openVal)
      close == NumberOrZero(closeVal)
      low == IF lowVal[1] = "num" THEN lowVal[2] ELSE Min2(open, close)
      high == IF highVal[1] = "num" THEN highVal[2] ELSE Max2(open, close)
  IN <<open, close, low, high>>

CandlestickOption(config) ==
  [legend |-> <<>>,
   xAxis |-> CategoryAxis(config),
   series |-> << [name |-> "Candlestick", type |-> "candlestick",
                  data |-> Array([r \in DOMAIN config.data |->
                              CandlestickEntry(config.data[r], ohlcKeys(config))]),
                  color |-> ColorAt(config.colors, 0),
                  color0 |-> OrElse(IF Len(config.colors) >= 2 THEN config.colors[2]
                                    ELSE NoKey, ColorAt(config.colors, 0))] >>]

\* the series of the scatter builder: one point [x, y] per record, x read
\* from the name key and y from the series key, a value that is not a
\* number replaced by 0
ScatterSeries(config, type) ==
  LET keys == SeriesKeys(config)
  IN Array([idx \in DOMAIN keys |->
        [name |-> keys[idx], type |-> type,
         data |-> Array([r \in DOMAIN config.data |->
                    <<NumberOrZero(Get(config.data[r], config.nameKey)),
                      NumberOrZero(Get(config.data[r], keys[idx]))>>]),
         color |-> ColorAt(config.colors, idx - 1),
         stack |-> <<>>, lineType |-> "solid", symbol |-> "default"]])

\* the scatter builder; its x axis is a value axis without categories
ScatterOption(config) ==
  [legend |-> SeriesKeys(config),
   xAxis |-> <<>>,
   series |-> ScatterSeries(config, "scatter")]

GroupedBarOption(config) ==
  [legend |-> SeriesKeys(config),
   xAxis |-> CategoryAxis(config),
   series |-> CategorySeries(config, "bar", FALSE)]

AreaOption(config) ==
  [legend |-> SeriesKeys(config),
   xAxis |-> CategoryAxis(config),
   series |-> CategorySeries(config, "line", config.isStacked)]

StackedAreaOption(config) ==
  [legend |-> SeriesKeys(config),
   xAxis |-> CategoryAxis(config),
   series |-> CategorySeries(config, "line", TRUE)]

BubbleOption(config) ==
  [legend |-> SeriesKeys(config),
   xAxis |-> <<>>,
   series |-> ScatterSeries(config, "scatter")]

EffectScatterOption(config) ==
  [legend |-> SeriesKeys(config),
   xAxis |-> <<>>,
   series |-> ScatterSeries(config, "effectScatter")]

\* the one series of the histogram and density builders, read from the
\* value key
ValueKeySeries(config, type) ==
  << [name |-> config.valueKey, type |-> type,
      data |-> ColumnOf(config, config.valueKey),
      color |-> ColorAt(config.colors, 0),
      stack |-> <<>>, lineType |-> "solid", symbol |-> "default"] >>

HistogramOption(config) ==
  [legend |-> <<>>,
   xAxis |-> CategoryAxis(config),
   series |-> ValueKeySeries(config, "bar")]

DensityOption(config) ==
  [legend |-> <<>>,
   xAxis |-> CategoryAxis(config),
   series |-> ValueKeySeries(config, "line")]

\* the lollipop builder: one series of points [index, value], the index
\* being config.data.indexOf(item) and the value read like a pie value
LollipopOption(config) ==
  [legend |-> <<>>,
   xAxis |-> CategoryAxis(config),
   series |-> << [name |-> config.valueKey, type |-> "scatter",
                  data |-> Array([r \in DOMAIN config.data |->
                             <<r - 1, PieValue(Get(config.data[r], config.valueKey))>>]),
                  color |-> ColorAt(config.colors, 0),
                  stack |-> <<>>, lineType |-> "solid", symbol |-> "default"] >>]

\* the chart types whose option builder this development covers
BuilderTypes ==
  {"bar", "stackedbar", "line", "pie", "donut", "treemap", "funnel", "sunburst",
   "boxplot", "candlestick", "scatter", "groupedbar", "area", "stackedarea",
   "bubble", "effectscatter", "histogram", "density", "lollipop"}

\* echartsConfig.generateOption(elementConfig) of the entry for chartType
generateOption(chartType, config, trendSeed) ==
  CASE chartType = "bar" -> BarOption(config)
    [] chartType = "stackedbar" -> StackedBarOption(config)
    [] chartType = "line" -> LineOption(config, trendSeed)
    [] chartType = "pie" -> PieOption(config)
    [] chartType = "donut" -> DonutOption(config)
    [] chartType = "treemap" -> TreemapOption(config)
    [] chartType = "funnel" -> FunnelOption(config)
    [] chartType = "sunburst" -> SunburstOption(config)
    [] chartType = "boxplot" -> BoxplotOption(config)
    [] chartType = "candlestick" -> CandlestickOption(config)
    [] chartType = "scatter" -> ScatterOption(config)
    [] chartType = "groupedbar" -> GroupedBarOption(config)
    [] chartType = "area" -> AreaOption(config)
    [] chartType = "stackedarea" -> StackedAreaOption(config)
    [] chartType = "bubble" -> BubbleOption(config)
    [] chartType = "effectscatter" -> EffectScatterOption(config)
    [] chartType = "histogram" -> HistogramOption(config)
    [] chartType = "density" -> DensityOption(config)
    [] chartType = "lollipop" -> LollipopOption(config)

----------------------------------------------------------------------------
(* Inputs                                                                  *)

\* chartExamples[0].data, "Sales Over Time": the data the application starts with
SalesData ==
  << Obj(<< <<<<"n","a","m","e">>, Str(<<"J","a","n">>)>>, <<<<"v","a","l","u","e">>, Num(400)>>, <<<<"s","a","l","e","s">>, Num(4000)>> >>),
     Obj(<< <<<<"n","a","m","e">>, Str(<<"F","e","b">>)>>, <<<<"v","a","l","u","e">>, Num(300)>>, <<<<"s","a","l","e","s">>, Num(3000)>> >>),
     Obj(<< <<<<"n","a","m","e">>, Str(<<"M","a","r">>)>>, <<<<"v","a","l","u","e">>, Num(500)>>, <<<<"s","a","l","e","s">>, Num(5000)>> >>),
     Obj(<< <<<<"n","a","m","e">>, Str(<<"A","p","r">>)>>, <<<<"v","a","l","u","e">>, Num(450)>>, <<<<"s","a","l","e","s">>, Num(4500)>> >>),
     Obj(<< <<<<"n","a","m","e">>, Str(<<"M","a","y">>)>>, <<<<"v","a","l","u","e">>, Num(600)>>, <<<<"s","a","l","e","s">>, Num(6000)>> >>),
     Obj(<< <<<<"n","a","m","e">>, Str(<<"J","u","n">>)>>, <<<<"v","a","l","u","e">>, Num(550)>>, <<<<"s","a","l","e","s">>, Num(5500)>> >>) >>

\* SalesData after an edit of the value of its third record in the data textarea
SalesDataEdited ==
  << Obj(<< <<<<"n","a","m","e">>, Str(<<"J","a","n">>)>>, <<<<"v","a","l","u","e">>, Num(400)>>, <<<<"s","a","l","e","s">>, Num(4000)>> >>),
     Obj(<< <<<<"n","a","m","e">>, Str(<<"F","e","b">>)>>, <<<<"v","a","l","u","e">>, Num(300)>>, <<<<"s","a","l","e","s">>, Num(3000)>> >>),
     Obj(<< <<<<"n","a","m","e">>, Str(<<"M","a","r">>)>>, <<<<"v","a","l","u","e">>, Num(700)>>, <<<<"s","a","l","e","s">>, Num(5000)>> >>),
     Obj(<< <<<<"n","a","m","e">>, Str(<<"A","p","r">>)>>, <<<<"v","a","l","u","e">>, Num(450)>>, <<<<"s","a","l","e","s">>, Num(4500)>> >>),
     Obj(<< <<<<"n","a","m","e">>, Str(<<"M","a","y">>)>>, <<<<"v","a","l","u","e">>, Num(600)>>, <<<<"s","a","l","e","s">>, Num(6000)>> >>),
     Obj(<< <<<<"n","a","m","e">>, Str(<<"J","u","n">>)>>, <<<<"v","a","l","u","e">>, Num(550)>>, <<<<"s","a","l","e","s">>, Num(5500)>> >>) >>

\* the placeholder data of the data textarea
PieData ==
  << Obj(<< <<<<"n","a","m","e">>, Str(<<"J","a","n">>)>>, <<<<"v","a","l","u","e">>, Num(400)>> >>),
     Obj(<< <<<<"n","a","m","e">>, Str(<<"F","e","b">>)>>, <<<<"v","a","l","u","e">>, Num(300)>> >>) >>

\* records whose first numeric key is not the one the classifier prefers
GrowthData ==
  << Obj(<< <<<<"n","a","m","e">>, Str(<<"Q","1">>)>>, <<<<"g","r","o","w","t","h">>, Num(5)>>, <<<<"v","a","l","u","e">>, Num(12000)>> >>),
     Obj(<< <<<<"n","a","m","e">>, Str(<<"Q","2">>)>>, <<<<"g","r","o","w","t","h">>, Num(8)>>, <<<<"v","a","l","u","e">>, Num(15000)>> >>) >>

\* records without any numeric field
LabelData ==
  << Obj(<< <<<<"n","a","m","e">>, Str(<<"J","a","n">>)>> >>),
     Obj(<< <<<<"n","a","m","e">>, Str(<<"F","e","b">>)>> >>) >>

\* an empty data set
EmptyData ==
  <<>>

\* chartExamples[0].prompt: the prompt the application starts with
DefaultPrompt ==
  <<"C","r","e","a","t","e"," ","a"," ","b","a","r"," ","c","h","a","r","t"," ","s","h","o","w","i","n","g"," ","s","a","l","e","s"," ","d","a","t","a"," ","o","v","e","r"," ","t","i","m","e">>

----------------------------------------------------------------------------
(* Config assembler: the chart-generation effect of ChartGenerator         *)

VARIABLES
  data,             \* the data prop
  prompt,           \* the prompt prop
  dataKeysMemo,     \* the dataKeys memo: <<>> before the first render, else <<value>>
  previousHashRef,  \* previousHashRef.current
  chartConfig,      \* the chartConfig state: <<>> for null, else <<config>>
  error,            \* the error state: <<>> for null, else the message
  timers,           \* the pending setTimeout(..., 0) callbacks, oldest first
  cachedColors,     \* the module-level palette cache
  paletteCalls,     \* the getRandomColorPalette calls so far: count asked, array returned
  detectedType,     \* the result of the latest detectEChartsType call, or ""
  produced,         \* defaultConfig of the latest effect run, <<>> if none
  warned            \* the chart type the latest run warned about, or ""

vars ==
  <<data, prompt, dataKeysMemo, previousHashRef, chartConfig, error, timers,
    cachedColors, paletteCalls, detectedType, produced, warned>>

\* the condition with the prompt tested without trim()
ValidInputs_Untrimmed(d, p) ==
  /\ d # <<>>
  /\ p # <<>>
  /\ Len(p) > 0
  /\ ComputeDataKeys(d).nameKey # NoKey
  /\ ComputeDataKeys(d).valueKey # NoKey

\* the condition of the if statement of the effect
ValidInputs(d, p) ==
  /\ d # <<>>
  /\ p # <<>>
  /\ Len(Trim(p)) > 0
  /\ ComputeDataKeys(d).nameKey # NoKey
  /\ ComputeDataKeys(d).valueKey # NoKey

\* dataKeysToUse.split(",").map((k) => k.trim())
SplitDataKeys(dataKeysToUse) ==
  LET pieces == SplitBy(dataKeysToUse, {","}, <<>>)
  IN Array([i \in DOMAIN pieces |-> Trim(pieces[i])])

\* what the prompt and the data decide in one run of the effect, apart from
\* the chart type: the trendline flags, the resolved keys, the colors found
\* in the prompt, the records handed to the builder and the fingerprint
Interpret(d, p) ==
  The({ LET multipleTrendlines == IsMultipleTrendline(promptLower)
            keys == The({ k : k \in {ResolveKeys(p, dataKeys, multipleTrendlines)} })
        IN [hasTrendline |-> multipleTrendlines \/ IsSingleTrendline(promptLower),
            multipleTrendlines |-> multipleTrendlines,
            mentionedKeys |-> keys.mentionedKeys,
            nameKeyToUse |-> keys.nameKey,
            valueKeyToUse |-> keys.valueKey,
            dataKeysToUse |-> keys.dataKeys,
            fieldList |-> keys.fieldList,
            extractedColors |-> extractColors(promptLower),
            dataToUse |-> dataKeys.flattenedData,
            hash |-> dataPromptHash(d, p)] :
        dataKeys \in {ComputeDataKeys(d)},
        promptLower \in {Trim(ToLowerCase(p))} })

\* the branch the effect takes for the props d and p: <<>> for the else
\* branch, else the interpretation of the inputs
Analyse(d, p) ==
  IF ValidInputs(d, p) THEN <<Interpret(d, p)>> ELSE <<>>

\* the message of the setError call: the fixed text and the chart type that
\* the template literal appends to it
FailureMessage(chartType) ==
  <<"Failed to generate chart configuration for type: ", chartType>>

\* the callback that stores a configuration and resets the error
ConfigTimer(config) ==
  [setsConfig |-> TRUE, config |-> <<config>>, setsError |-> TRUE, error |-> <<>>]

\* a callback of the else branch that leaves the configuration alone
ClearTimer_Noop ==
  [setsConfig |-> FALSE, config |-> <<>>, setsError |-> FALSE, error |-> <<>>]

\* the callback of the else branch: setChartConfig(null)
ClearTimer ==
  [setsConfig |-> TRUE, config |-> <<>>, setsError |-> FALSE, error |-> <<>>]

\* the callback of the failure branch: setError(message)
ErrorTimer(message) ==
  [setsConfig |-> FALSE, config |-> <<>>, setsError |-> TRUE, error |-> message]

\* chartType after the rule that a trendline needs a line or scatter chart
TrendlineType(detected, hasTrendline) ==
  IF hasTrendline /\ detected \notin {"line", "scatter"} THEN "line"
  ELSE detected

\* an else branch that leaves previousHashRef.current as it is
ResetHash_Kept(previous) ==
  previous

\* previousHashRef.current = "" of the else branch
ResetHash(previous) ==
  <<>>

\* an effect that never finds its inputs processed
AlreadyAssembled_Never(previous, hash) ==
  FALSE

\* previousHashRef.current === dataPromptHash
AlreadyAssembled(previous, hash) ==
  previous = hash

\* the effect from the registry lookup on, for the chart type the trendline
\* rule left, the interpretation i and the first palette: the fallback,
\* the element configuration, the option and the scheduled callback
AssembleWith(chartType0, i, cache, palette1, seed2, trendSeed) ==
  LET known == HasEChartsConfig(chartType0)
      chartType == IF known THEN chartType0 ELSE "bar"
      useExtracted == Len(i.extractedColors) > 0
      cache1 == IF useExtracted THEN cache ELSE palette1.cachedColors
  IN The({ LET defaultConfig ==
                 [chartType |-> chartType,
                  echartsOption |-> generateOption(chartType, elementConfig, trendSeed),
                  dataMapping |-> [nameKey |-> i.nameKeyToUse,
                                   valueKey |-> i.valueKeyToUse,
                                   dataKeys |-> i.dataKeysToUse],
                  colors |-> IF useExtracted THEN i.extractedColors
                             ELSE palette2.colors,
                  promptHash |-> i.hash]
           IN [cachedColors |-> IF useExtracted \/ ~known THEN cache1
                                ELSE palette2.cachedColors,
               calls |-> IF useExtracted THEN {}
                         ELSE {[count |-> PaletteSize, colors |-> palette1.colors]}
                                \cup IF known
                                       THEN {[count |-> PaletteSize,
                                              colors |-> palette2.colors]}
                                       ELSE {},
               warned |-> IF known THEN "" ELSE chartType0,
               produced |-> IF known THEN <<defaultConfig>> ELSE <<>>,
               timer |-> IF known THEN ConfigTimer(defaultConfig)
                         ELSE ErrorTimer(FailureMessage(chartType))] :
           elementConfig \in
             {[nameKey |-> i.nameKeyToUse,
               valueKey |-> i.valueKeyToUse,
               dataKeys |-> IF i.dataKeysToUse # NoKey
                              THEN SplitDataKeys(i.dataKeysToUse) ELSE <<>>,
               colors |-> IF useExtracted THEN i.extractedColors
                          ELSE palette1.colors,
               isStacked |-> chartType \in {"stackedbar", "stackedarea"},
               isGrouped |-> chartType = "groupedbar",
               hasTrendline |-> i.hasTrendline,
               multipleTrendlines |-> i.multipleTrendlines,
               data |-> i.dataToUse]},
           palette2 \in {getRandomColorPalette(cache1, PaletteSize, seed2)} })

\* the body of the effect after the memo check.  seed1 and seed2 are the
\* streams of Math.random the two getRandomColorPalette calls read if they
\* generate, trendSeed the one the builder reads for trendlines
Assemble(chartType0, i, cache, seed1, seed2, trendSeed) ==
  The({ AssembleWith(type, interpretation, cache, palette1, seed2, trendSeed) :
        type \in {chartType0},
        interpretation \in {i},
        palette1 \in {getRandomColorPalette(cache, PaletteSize, seed1)} })
----------------------------------------------------------------------------
(* Records of the flattener and of the field classifier                    *)

\* the record {a:{b:1,c:2}}
NestedRecord ==
  Obj(<<<<<<"a">>, Obj(<<<<<<"b">>, Num(1)>>, <<<<"c">>, Num(2)>>>>)>>>>)

\* a record with an array of primitives
TagsRecord ==
  Obj(<<<<<<"n","a","m","e">>, Str(<<"A">>)>>, <<<<"t","a","g","s">>, Arr(<<Str(<<"x">>), Str(<<"y">>)>>)>>, <<<<"v","a","l","u","e">>, Num(2)>>>>)

\* a record with an array of arrays of numbers
MatrixRecord ==
  Obj(<<<<<<"n","a","m","e">>, Str(<<"A">>)>>, <<<<"m","a","t","r","i","x">>, Arr(<<Arr(<<Num(1), Num(2)>>), Arr(<<Num(3), Num(4)>>)>>)>>>>)

\* a record with an array of objects
ItemsRecord ==
  Obj(<<<<<<"n","a","m","e">>, Str(<<"A">>)>>, <<<<"i","t","e","m","s">>, Arr(<<Obj(<<<<<<"x">>, Num(1)>>>>), Obj(<<<<<<"x">>, Num(2)>>>>)>>)>>>>)

\* a date field after a string field, neither with a label-like name
DateRecord ==
  Obj(<<<<<<"f","o","o">>, Str(<<"x">>)>>, <<<<"w","h","e","n">>, Str(<<"2","0","2","4","-","0","1","-","0","1">>)>>, <<<<"v">>, Num(1)>>>>)

\* the other records: one for each kind of value and of key the flattener
\* and the classifier tell apart
EdgeRecords ==
  {
    \* a record of primitives
    Obj(<<<<<<"n","a","m","e">>, Str(<<"A">>)>>, <<<<"v","a","l","u","e">>, Num(1)>>, <<<<"o","k">>, <<"bool", TRUE>>>>>>),
    \* an array whose first element is an object and whose second is a number
    Obj(<<<<<<"n","a","m","e">>, Str(<<"A">>)>>, <<<<"m","i","x","e","d">>, Arr(<<Obj(<<<<<<"x">>, Num(1)>>>>), Num(5)>>)>>>>),
    \* an array whose first element is a string and whose second is an object
    Obj(<<<<<<"n","a","m","e">>, Str(<<"A">>)>>, <<<<"m","i","x","e","d">>, Arr(<<Str(<<"s">>), Obj(<<<<<<"x">>, Num(1)>>>>)>>)>>>>),
    \* a record with the key a.b and the object a with the key b
    Obj(<<<<<<"a",".","b">>, Num(1)>>, <<<<"a">>, Obj(<<<<<<"b">>, Num(2)>>>>)>>>>),
    \* the same with the dotted key last
    Obj(<<<<<<"a">>, Obj(<<<<<<"b">>, Num(2)>>>>)>>, <<<<"a",".","b">>, Num(1)>>>>),
    \* a record with a null field
    Obj(<<<<<<"n","a","m","e">>, Null>>, <<<<"v">>, Num(1)>>>>),
    \* a null inside a nested object
    Obj(<<<<<<"a">>, Obj(<<<<<<"n">>, Null>>, <<<<"m">>, Num(3)>>>>)>>>>),
    \* a record with an undefined field
    Obj(<<<<<<"n","a","m","e">>, Str(<<"A">>)>>, <<<<"u">>, <<"undef">>>>>>),
    \* a record with an empty array
    Obj(<<<<<<"n","a","m","e">>, Str(<<"A">>)>>, <<<<"t","a","g","s">>, Arr(<<>>)>>>>),
    \* an array whose first element is null
    Obj(<<<<<<"n","a","m","e">>, Str(<<"A">>)>>, <<<<"x","s">>, Arr(<<Null, Num(1)>>)>>>>),
    \* objects nested twice
    Obj(<<<<<<"a">>, Obj(<<<<<<"b">>, Obj(<<<<<<"c">>, <<"bool", TRUE>>>>, <<<<"d">>, Str(<<"e">>)>>>>)>>>>)>>>>),
    \* an array of objects that hold an object and an array
    Obj(<<<<<<"i","t","e","m","s">>, Arr(<<Obj(<<<<<<"p">>, Obj(<<<<<<"q">>, Num(1)>>>>)>>>>), Obj(<<<<<<"r">>, Arr(<<Num(1), Num(2)>>)>>>>)>>)>>>>),
    \* the record {}
    Obj(<<>>),
    \* a record without string field
    Obj(<<<<<<"v">>, Num(1)>>, <<<<"w">>, Num(2)>>>>),
    \* string fields none of which has a label-like name or a date
    Obj(<<<<<<"f","o","o">>, Str(<<"x">>)>>, <<<<"b","a","r">>, Str(<<"y">>)>>, <<<<"v">>, Num(1)>>>>),
    \* a string field with a label-like name after another string field and a date
    Obj(<<<<<<"f","o","o">>, Str(<<"x">>)>>, <<<<"w","h","e","n">>, Str(<<"2","0","2","4","-","0","1","-","0","1">>)>>, <<<<"l","a","b","e","l">>, Str(<<"y">>)>>, <<<<"v">>, Num(1)>>>>),
    \* a numeric field with a label-like name before the string fields
    Obj(<<<<<<"i","d">>, Num(7)>>, <<<<"f","o","o">>, Str(<<"x">>)>>, <<<<"v">>, Num(1)>>>>) }

\* the data sets of the classification specification: one record each, and
\* one of two records
ClassifyDataSets ==
  { <<r>> : r \in EdgeRecords \cup { NestedRecord, ItemsRecord, TagsRecord, MatrixRecord, DateRecord } }
    \cup { <<ItemsRecord, NestedRecord>>, EmptyData }

----------------------------------------------------------------------------
(* Data sets of the option builders                                       *)

\* records whose value field holds a number, numeric text, text that starts
\* with a number, other text and null, or is missing
CoercionData ==
  << Obj(<<<<<<"n","a","m","e">>, Str(<<"A">>)>>, <<<<"v","a","l","u","e">>, Num(100)>>>>),
     Obj(<<<<<<"n","a","m","e">>, Str(<<"B">>)>>, <<<<"v","a","l","u","e">>, Str(<<"2","5","0">>)>>>>),
     Obj(<<<<<<"n","a","m","e">>, Str(<<"C">>)>>, <<<<"v","a","l","u","e">>, Str(<<"4","5","%">>)>>>>),
     Obj(<<<<<<"n","a","m","e">>, Str(<<"D">>)>>, <<<<"v","a","l","u","e">>, Str(<<"n","/","a">>)>>>>),
     Obj(<<<<<<"n","a","m","e">>, Str(<<"E">>)>>, <<<<"v","a","l","u","e">>, Null>>>>),
     Obj(<<<<<<"n","a","m","e">>, Num(7)>>>>) >>

\* ten records with the values 1..10 in no particular order
TenValuesData ==
  << Obj(<<<<<<"n","a","m","e">>, Str(<<"a">>)>>, <<<<"v","a","l","u","e">>, Num(7)>>>>),
     Obj(<<<<<<"n","a","m","e">>, Str(<<"b">>)>>, <<<<"v","a","l","u","e">>, Num(2)>>>>),
     Obj(<<<<<<"n","a","m","e">>, Str(<<"c">>)>>, <<<<"v","a","l","u","e">>, Num(10)>>>>),
     Obj(<<<<<<"n","a","m","e">>, Str(<<"d">>)>>, <<<<"v","a","l","u","e">>, Num(4)>>>>),
     Obj(<<<<<<"n","a","m","e">>, Str(<<"e">>)>>, <<<<"v","a","l","u","e">>, Num(1)>>>>),
     Obj(<<<<<<"n","a","m","e">>, Str(<<"f">>)>>, <<<<"v","a","l","u","e">>, Num(9)>>>>),
     Obj(<<<<<<"n","a","m","e">>, Str(<<"g">>)>>, <<<<"v","a","l","u","e">>, Num(3)>>>>),
     Obj(<<<<<<"n","a","m","e">>, Str(<<"h">>)>>, <<<<"v","a","l","u","e">>, Num(6)>>>>),
     Obj(<<<<<<"n","a","m","e">>, Str(<<"i">>)>>, <<<<"v","a","l","u","e">>, Num(8)>>>>),
     Obj(<<<<<<"n","a","m","e">>, Str(<<"j">>)>>, <<<<"v","a","l","u","e">>, Num(5)>>>>) >>

\* a single record
OneRecordData ==
  << Obj(<<<<<<"n","a","m","e">>, Str(<<"A">>)>>, <<<<"v","a","l","u","e">>, Num(5)>>>>) >>

\* records with four numeric fields
OhlcData ==
  << Obj(<<<<<<"d","a","y">>, Str(<<"M","o","n">>)>>, <<<<"o","p","e","n">>, Num(10)>>, <<<<"c","l","o","s","e">>, Num(15)>>, <<<<"l","o","w">>, Num(8)>>, <<<<"h","i","g","h">>, Num(17)>>>>),
     Obj(<<<<<<"d","a","y">>, Str(<<"T","u","e">>)>>, <<<<"o","p","e","n">>, Num(15)>>, <<<<"c","l","o","s","e">>, Num(12)>>, <<<<"l","o","w">>, Num(11)>>, <<<<"h","i","g","h">>, Num(16)>>>>) >>

\* the data sets and prompts of the builder specification
BuildDataSets ==
  { PieData, SalesData, CoercionData, TenValuesData, OneRecordData, OhlcData }

BuildPrompts ==
  { <<"C","r","e","a","t","e"," ","a"," ","p","i","e"," ","c","h","a","r","t">>,
    <<"C","r","e","a","t","e"," ","a"," ","d","o","n","u","t"," ","c","h","a","r","t">>,
    <<"s","h","o","w"," ","a"," ","t","r","e","e","m","a","p">>,
    <<"f","u","n","n","e","l"," ","c","h","a","r","t">>,
    <<"s","u","n","b","u","r","s","t"," ","c","h","a","r","t">>,
    <<"C","r","e","a","t","e"," ","a"," ","b","o","x","p","l","o","t">>,
    <<"c","a","n","d","l","e","s","t","i","c","k"," ","c","h","a","r","t">>,
    <<"c","a","n","d","l","e","s","t","i","c","k"," ","o","f"," ","o","p","e","n"," ","a","n","d"," ","c","l","o","s","e">>,
    <<"c","a","n","d","l","e","s","t","i","c","k"," ","w","i","t","h"," ","o","p","e","n",","," ","c","l","o","s","e",","," ","l","o","w"," ","a","n","d"," ","h","i","g","h">> }

\* the data sets and the prompts of the series specification
SeriesDataSets ==
  { SalesData, PieData, CoercionData }

SeriesPrompts ==
  { <<"l","i","n","e"," ","c","h","a","r","t"," ","w","i","t","h"," ","t","r","e","n","d","l","i","n","e">>,
    <<"l","i","n","e"," ","c","h","a","r","t"," ","o","f"," ","v","a","l","u","e"," ","a","n","d"," ","s","a","l","e","s"," ","w","i","t","h"," ","t","r","e","n","d","l","i","n","e">>,
    <<"s","c","a","t","t","e","r"," ","p","l","o","t"," ","w","i","t","h"," ","t","r","e","n","d","l","i","n","e">>,
    <<"d","u","a","l"," ","t","r","e","n","d","l","i","n","e"," ","f","o","r"," ","v","a","l","u","e"," ","a","n","d"," ","s","a","l","e","s">>,
    <<"b","a","r"," ","c","h","a","r","t"," ","w","i","t","h"," ","r","e","g","r","e","s","s","i","o","n">>,
    <<"l","i","n","e"," ","c","h","a","r","t">>,
    <<"b","a","r"," ","c","h","a","r","t"," ","o","f"," ","v","a","l","u","e"," ","a","n","d"," ","s","a","l","e","s">>,
    <<"s","t","a","c","k","e","d"," ","b","a","r"," ","o","f"," ","v","a","l","u","e"," ","a","n","d"," ","s","a","l","e","s">>,
    <<"g","r","o","u","p","e","d"," ","b","a","r"," ","o","f"," ","v","a","l","u","e"," ","a","n","d"," ","s","a","l","e","s">>,
    <<"a","r","e","a"," ","c","h","a","r","t"," ","o","f"," ","v","a","l","u","e"," ","a","n","d"," ","s","a","l","e","s">>,
    <<"s","t","a","c","k","e","d"," ","a","r","e","a"," ","o","f"," ","v","a","l","u","e"," ","a","n","d"," ","s","a","l","e","s">>,
    <<"s","c","a","t","t","e","r"," ","p","l","o","t"," ","o","f"," ","v","a","l","u","e"," ","a","n","d"," ","s","a","l","e","s">>,
    <<"b","u","b","b","l","e"," ","c","h","a","r","t"," ","o","f"," ","v","a","l","u","e"," ","a","n","d"," ","s","a","l","e","s">>,
    <<"h","i","s","t","o","g","r","a","m"," ","o","f"," ","v","a","l","u","e"," ","a","n","d"," ","s","a","l","e","s">>,
    <<"l","o","l","l","i","p","o","p"," ","c","h","a","r","t"," ","o","f"," ","v","a","l","u","e"," ","a","n","d"," ","s","a","l","e","s">>,
    <<"d","e","n","s","i","t","y"," ","p","l","o","t"," ","o","f"," ","v","a","l","u","e"," ","a","n","d"," ","s","a","l","e","s">>,
    <<"r","i","p","p","l","e"," ","c","h","a","r","t"," ","o","f"," ","v","a","l","u","e"," ","a","n","d"," ","s","a","l","e","s">> }
----------------------------------------------------------------------------
(* Data sets and prompts of the field resolution                           *)

\* records with three numeric fields
ProfitData ==
  << Obj(<<<<<<"n","a","m","e">>, Str(<<"J","a","n">>)>>, <<<<"v","a","l","u","e">>, Num(400)>>, <<<<"s","a","l","e","s">>, Num(4000)>>, <<<<"p","r","o","f","i","t">>, Num(900)>>>>),
     Obj(<<<<<<"n","a","m","e">>, Str(<<"F","e","b">>)>>, <<<<"v","a","l","u","e">>, Num(300)>>, <<<<"s","a","l","e","s">>, Num(3000)>>, <<<<"p","r","o","f","i","t">>, Num(700)>>>>) >>

\* records with a field name that holds a comma
CommaData ==
  << Obj(<<<<<<"n","a","m","e">>, Str(<<"J","a","n">>)>>, <<<<"n","e","t",","," ","g","r","o","s","s">>, Num(40)>>, <<<<"c","o","s","t">>, Num(25)>>>>),
     Obj(<<<<<<"n","a","m","e">>, Str(<<"F","e","b">>)>>, <<<<"n","e","t",","," ","g","r","o","s","s">>, Num(30)>>, <<<<"c","o","s","t">>, Num(20)>>>>) >>

\* records with text fields and a date field whose names hold a word of the value pattern
StaffData ==
  << Obj(<<<<<<"s","a","l","e","s","_","r","e","p">>, Str(<<"A","n","n">>)>>, <<<<"t","i","m","e","s","t","a","m","p">>, Str(<<"2","0","2","4","-","0","1","-","0","1">>)>>, <<<<"u","n","i","t","s">>, Num(5)>>, <<<<"c","o","s","t">>, Num(25)>>>>),
     Obj(<<<<<<"s","a","l","e","s","_","r","e","p">>, Str(<<"B","o","b">>)>>, <<<<"t","i","m","e","s","t","a","m","p">>, Str(<<"2","0","2","4","-","0","1","-","0","2">>)>>, <<<<"u","n","i","t","s">>, Num(7)>>, <<<<"c","o","s","t">>, Num(20)>>>>) >>

FieldDataSets ==
  { SalesData, ProfitData, CommaData, StaffData }

FieldPrompts ==
  { <<"s","h","o","w"," ","p","r","o","f","i","t"," ","a","n","d"," ","l","o","s","s">>,
    <<"b","a","r"," ","c","h","a","r","t"," ","o","f"," ","p","r","o","f","i","t">>,
    <<"c","o","m","p","a","r","e"," ","v","a","l","u","e"," ","a","n","d"," ","s","a","l","e","s">>,
    <<"v","a","l","u","e"," ","v","s"," ","p","r","o","f","i","t">>,
    <<"n","i","c","e"," ","a","n","d"," ","c","l","e","a","n">>,
    <<"b","a","r"," ","c","h","a","r","t"," ","b","y"," ","s","a","l","e","s","_","r","e","p">>,
    <<"l","i","n","e"," ","c","h","a","r","t"," ","o","f"," ","c","o","s","t"," ","b","y"," ","t","i","m","e","s","t","a","m","p">>,
    <<"p","l","o","t"," ","c","o","s","t"," ","a","n","d"," ","u","n","i","t","s">>,
    <<"p","i","e"," ","c","h","a","r","t">> }


----------------------------------------------------------------------------
(* Inputs of the specifications                                            *)

\* the streams of Math.random that are told apart
NumSeeds == 2

Seeds ==
  1..NumSeeds

\* the most callbacks that wait at one time
MaxPending == 2

\* the data sets and prompts of the lifecycle specification
DataSets ==
  { EmptyData, SalesData, SalesDataEdited, LabelData }

Prompts ==
  { <<>>,
    <<" "," ">>,
    DefaultPrompt,
    <<"C","r","e","a","t","e"," ","a"," ","p","i","e"," ","c","h","a","r","t">>,
    <<" ","C","r","e","a","t","e"," ","a"," ","p","i","e"," ","c","h","a","r","t"," ">> }

\* the data sets and prompts of the interpretation specification
MountDataSets ==
  { EmptyData, SalesData, PieData, GrowthData, LabelData }

MountPrompts ==
  { <<>>,
    <<" ">>,
    DefaultPrompt,
    <<"C","r","e","a","t","e"," ","a"," ","p","i","e"," ","c","h","a","r","t">>,
    <<"s","h","o","w"," ","m","e"," ","a"," ","s","t","a","c","k","e","d"," ","b","a","r"," ","c","h","a","r","t">>,
    <<"p","l","o","t"," ","i","t">>,
    <<"d","r","a","w"," ","t","h","i","s">>,
    <<"?">>,
    <<"n","i","c","e"," ","a","n","d"," ","c","l","e","a","n">>,
    <<"u","p"," ","&"," ","d","o","w","n">>,
    <<"p","l","o","t"," ","g","r","o","w","t","h">>,
    <<"m","a","k","e"," ","i","t"," ","r","e","d"," ","a","n","d"," ","#","0","0","f","f","0","0">>,
    <<"p","l","o","t"," ","i","t"," ","i","n"," ","#","a","b","c">>,
    <<"a"," ","l","i","n","e"," ","w","i","t","h"," ","a"," ","t","r","e","n","d","l","i","n","e">>,
    <<"s","c","a","t","t","e","r"," ","w","i","t","h"," ","d","u","a","l"," ","t","r","e","n","d","l","i","n","e">>,
    <<"S","c","a","t","t","e","r"," ","p","l","o","t",","," ","M","u","l","t","i","p","l","e"," "," ","T","r","e","n","d"," ","L","i","n","e">>,
    <<"p","i","e"," ","w","i","t","h"," ","m","u","l","t","i","p","l","e"," ","t","r","e","n","d","l","i","n","e","s">>,
    <<"b","a","r"," ","w","i","t","h"," ","m","u","l","t","i","p","l","e"," ","t","r","e","n","d"," ","l","i","n","e","s">>,
    <<"m","a","k","e"," ","i","t"," ","b","l","u","e"," ","a","n","d"," ","r","e","d">>,
    <<"p","l","o","t"," ","i","t"," ","i","n"," ","#","0","0","f","f","0","0"," ","t","h","e","n"," ","r","e","d">>,
    <<"r","e","d",","," ","#","f","0","0"," ","o","r"," ","#","f","f","0","0","0","0"," ","b","a","r","s">>,
    <<"p","l","o","t"," ","i","t"," ","i","n"," ","r","g","b","(","1",",","2",",","3",")"," ","o","r"," ","l","i","m","e">>,
    <<"p","l","o","t"," ","i","t"," ","i","n"," ","#","a","b","c","d">> }

\* phrases that prompts of the detection specification are made of
DetectPhrases ==
  { <<"b","a","r">>, <<"s","t","a","c","k","e","d"," ","b","a","r">>, <<"g","r","o","u","p","e","d"," ","b","a","r">>, <<"r","a","d","i","a","l"," ","b","a","r">>,
    <<"a","r","e","a">>, <<"s","t","a","c","k","e","d"," ","a","r","e","a">>, <<"p","o","l","a","r"," ","a","r","e","a">>, <<"l","i","n","e">>, <<"g","r","a","p","h">>,
    <<"p","i","e">>, <<"c","o","l","u","m","n">>, <<"s","t","o","c","k">>, <<"d","a","i","l","y">>, <<"b","a","r","s">>, <<"b","a","r","c","o","d","e">> }

\* the usage examples of the README
ReadmePrompts ==
  { <<"C","r","e","a","t","e"," ","a"," ","b","a","r"," ","c","h","a","r","t"," ","s","h","o","w","i","n","g"," ","s","a","l","e","s"," ","d","a","t","a">>,
    <<"M","a","k","e"," ","a"," ","l","i","n","e"," ","g","r","a","p","h"," ","w","i","t","h"," ","t","h","e"," ","d","a","t","a">>,
    <<"S","h","o","w"," ","m","e"," ","a"," ","p","i","e"," ","c","h","a","r","t">> }

DetectPrompts ==
  { a \o <<" ">> \o b : a, b \in DetectPhrases }
    \cup { <<"s","h","o","w"," ","m","e"," ","a"," ">> \o a \o <<" ","c","h","a","r","t">> : a \in DetectPhrases }
    \cup { <<"S","t","a","c","k","e","d"," "," ","B","a","r">>, <<"b","a","r"," ","w","i","t","h"," ","d","u","a","l"," ","t","r","e","n","d","l","i","n","e">>, <<"h","e","l","l","o">>,
         <<"s","t","a","c","k","e","d"," ","b","a","r"," ","w","i","t","h"," ","m","u","l","t","i","p","l","e"," ","t","r","e","n","d","l","i","n","e">> }
    \cup ReadmePrompts

\* the prompts of the classification specification
ClassifyPrompts ==
  { <<>>, <<"p","l","o","t"," ","i","t">> }

\* the chart data the generateChart handler of App leaves for the data
\* value of its call: an array as it is, an object as a one-element array,
\* and for any other value the data it found
HandlerData(value, chartData) ==
  IF value[1] = "arr" THEN value[2]
  ELSE IF value[1] = "obj" THEN <<value>>
  ELSE chartData

\* the prompt the handler sets: the template string of setChartPrompt
HandlerPrompt(call) ==
  call.chartType \o <<" ","c","h","a","r","t">>
    \o (IF call.title # <<>> THEN <<" ","t","i","t","l","e","d"," ","\"">> \o call.title \o <<"\"">> ELSE <<>>)
    \o (IF call.xAxisKey # <<>> THEN <<" ","w","i","t","h"," ","x","-","a","x","i","s",":"," ">> \o call.xAxisKey ELSE <<>>)
    \o (IF call.yAxisKey # <<>> THEN <<" ","a","n","d"," ","y","-","a","x","i","s",":"," ">> \o call.yAxisKey ELSE <<>>)

\* the arguments of the generateChart calls: the data value, the chart
\* type and the optional title and axis keys (<<>> when not given)
HandlerCalls ==
  { [data |-> v, chartType |-> o[1], title |-> o[2], xAxisKey |-> o[3], yAxisKey |-> o[4]] :
      v \in { Arr(PieData), Arr(EmptyData), PieData[1], Null, Str(<<"a","b","c">>), Num(5),
              <<"bool", TRUE>>, <<"undef">> },
      o \in { <<<<"p","i","e">>, <<>>, <<>>, <<>>>>,
              <<<<"l","i","n","e">>, <<"Q","1">>, <<"n","a","m","e">>, <<"v","a","l","u","e">>>> } }

\* the data sets and the prompts the handler can leave in the state
HandlerDataSets ==
  { SalesData, PieData, EmptyData, <<PieData[1]>> }

HandlerPrompts ==
  { DefaultPrompt } \cup { HandlerPrompt(call) : call \in HandlerCalls }

AllDataSets ==
  DataSets \cup MountDataSets \cup ClassifyDataSets \cup BuildDataSets
    \cup HandlerDataSets \cup SeriesDataSets \cup FieldDataSets

AllPrompts ==
  Prompts \cup MountPrompts \cup BuildPrompts \cup HandlerPrompts \cup SeriesPrompts
    \cup FieldPrompts

\* the pairs of inputs of the specifications
InputPairs ==
  (DataSets \X Prompts) \cup (MountDataSets \X MountPrompts)
    \cup (ClassifyDataSets \X ClassifyPrompts) \cup (BuildDataSets \X BuildPrompts)
    \cup (HandlerDataSets \X HandlerPrompts) \cup (SeriesDataSets \X SeriesPrompts)
    \cup (FieldDataSets \X FieldPrompts)

\* Analyse for every pair of inputs of the specifications, as a table that
\* is built once (the @@ makes the model checker enumerate it)
AnalysisTable ==
  [pair \in InputPairs |-> Analyse(pair[1], pair[2])] @@ <<>>

\* the dataKeys memo for every data set of the specifications
DataKeysTable ==
  [d \in AllDataSets |-> ComputeDataKeys(d)]

\* detectEChartsType for every prompt of the specifications
DetectTable ==
  [p \in AllPrompts |-> detectEChartsType(p)]

----------------------------------------------------------------------------
(* Actions                                                                 *)

\* one run of the effect for the props d and p, a being Analyse(d, p) and
\* detected the result of detectEChartsType(p)
EffectWith(detected, a, d, p, seed1, seed2, trendSeed) ==
  /\ data' = d
  /\ prompt' = p
  /\ dataKeysMemo' = <<DataKeysTable[d]>>
  /\ IF a # <<>>
       THEN IF AlreadyAssembled(previousHashRef, a[1].hash)
              THEN /\ produced' = <<>>
                   /\ warned' = ""
                   /\ detectedType' = ""
                   /\ UNCHANGED <<previousHashRef, timers, cachedColors, paletteCalls>>
              ELSE \E r \in {Assemble(TrendlineType(detected, a[1].hasTrendline),
                                      a[1], cachedColors, seed1, seed2, trendSeed)} :
                     /\ previousHashRef' = a[1].hash
                     /\ detectedType' = detected
                     /\ cachedColors' = r.cachedColors
                     /\ paletteCalls' = paletteCalls \cup r.calls
                     /\ produced' = r.produced
                     /\ warned' = r.warned
                     /\ timers' = Append(timers, r.timer)
       ELSE /\ previousHashRef' = ResetHash(previousHashRef)
            /\ timers' = Append(timers, ClearTimer)
            /\ produced' = <<>>
            /\ warned' = ""
            /\ detectedType' = ""
            /\ UNCHANGED <<cachedColors, paletteCalls>>
  /\ UNCHANGED <<chartConfig, error>>

\* the streams of Math.random a getRandomColorPalette call of the run can
\* read: it generates only while the cache is shorter than the palette
PaletteSeeds ==
  IF Len(cachedColors) < PaletteSize THEN Seeds ELSE {1}

\* the streams the line builder can read: it generates trendline colors
\* only if a trendline is asked for
TrendSeeds(a) ==
  IF a # <<>> /\ a[1].hasTrendline THEN Seeds ELSE {1}

\* a render with the props d and p, new or equal to the current ones,
\* followed by the effect, detected being what detectEChartsType returns
RunEffectDetected(detected, d, p) ==
  /\ Len(timers) < MaxPending
  /\ \E a \in {AnalysisTable[d, p]} :
       \E seed1 \in PaletteSeeds, seed2 \in PaletteSeeds, trendSeed \in TrendSeeds(a) :
         EffectWith(detected, a, d, p, seed1, seed2, trendSeed)

RunEffect(d, p) ==
  RunEffectDetected(DetectTable[p], d, p)

\* the oldest pending callback runs
TimerFire ==
  /\ timers # <<>>
  /\ timers' = Tail(timers)
  /\ chartConfig' = IF Head(timers).setsConfig THEN Head(timers).config
                    ELSE chartConfig
  /\ error' = IF Head(timers).setsError THEN Head(timers).error ELSE error
  /\ UNCHANGED <<data, prompt, dataKeysMemo, previousHashRef, cachedColors,
                 paletteCalls, detectedType, produced, warned>>

\* the component before its first effect, rendered with the props d and p
Unmounted(d, p) ==
  /\ data = d
  /\ prompt = p
  /\ dataKeysMemo = <<>>
  /\ previousHashRef = <<>>
  /\ chartConfig = <<>>
  /\ error = <<>>
  /\ timers = <<>>
  /\ cachedColors = <<>>
  /\ paletteCalls = {}
  /\ detectedType = ""
  /\ produced = <<>>
  /\ warned = ""

----------------------------------------------------------------------------
(* Lifecycle specification: the application's component, from the mount    *)
(* with the default example on                                             *)

\* the state after the component is mounted with the default example: the
\* effect has run once, from previousHashRef.current = "" and an empty cache
Init ==
  \E seed1 \in Seeds, seed2 \in Seeds :
    \E a \in {AnalysisTable[SalesData, DefaultPrompt]} :
      \E r \in {Assemble(TrendlineType(DetectTable[DefaultPrompt], a[1].hasTrendline),
                          a[1], <<>>, seed1, seed2, seed1)} :
        /\ data = SalesData
        /\ prompt = DefaultPrompt
        /\ dataKeysMemo = <<DataKeysTable[SalesData]>>
        /\ previousHashRef = a[1].hash
        /\ chartConfig = <<>>
        /\ error = <<>>
        /\ timers = <<r.timer>>
        /\ cachedColors = r.cachedColors
        /\ paletteCalls = r.calls
        /\ detectedType = DetectTable[DefaultPrompt]
        /\ produced = r.produced
        /\ warned = r.warned

Next ==
  \/ \E d \in DataSets, p \in Prompts : RunEffect(d, p)
  \/ TimerFire

Spec ==
  Init /\ [][Next]_vars

----------------------------------------------------------------------------
(* Interpretation specification: the component mounted with any inputs     *)

InitMount ==
  \E d \in MountDataSets, p \in MountPrompts : Unmounted(d, p)

\* the effect of the mount
Mount ==
  /\ previousHashRef = <<>>
  /\ produced = <<>>
  /\ timers = <<>>
  /\ chartConfig = <<>>
  /\ RunEffect(data, prompt)

NextMount ==
  \/ Mount
  \/ TimerFire

SpecMount ==
  InitMount /\ [][NextMount]_vars

----------------------------------------------------------------------------
(* Classification specification: the component mounted with records of    *)
(* any shape; the render computes the dataKeys memo before the effect runs *)

InitClassify ==
  \E d \in ClassifyDataSets, p \in ClassifyPrompts : Unmounted(d, p)

SpecClassify ==
  InitClassify /\ [][NextMount]_vars

----------------------------------------------------------------------------
(* Builder specification: the component mounted with the data and prompts  *)
(* that select the proportional, boxplot and candlestick builders          *)

InitBuild ==
  \E d \in BuildDataSets, p \in BuildPrompts : Unmounted(d, p)

SpecBuild ==
  InitBuild /\ [][NextMount]_vars

----------------------------------------------------------------------------
(* Detection specification: detectEChartsType applied to a prompt          *)

InitDetect ==
  \E p \in DetectPrompts : Unmounted(SalesData, p)

Detect ==
  /\ detectedType = ""
  /\ detectedType' = detectEChartsType(prompt)
  /\ UNCHANGED <<data, prompt, dataKeysMemo, previousHashRef, chartConfig,
                 error, timers, cachedColors, paletteCalls, produced, warned>>

NextDetect ==
  Detect

SpecDetect ==
  InitDetect /\ [][NextDetect]_vars

----------------------------------------------------------------------------
(* Fallback specification: the lifecycle with the result of the chart-type *)
(* detection ranging over identifiers beyond the ECharts registry.         *)
(* detectEChartsType itself only returns registered identifiers; the       *)
(* identifier "composed" is the entry of the Recharts registry of          *)
(* chartConfig.ts that the ECharts registry lacks.  The specification      *)
(* exercises the branch of the effect that handles a failed lookup.        *)

FallbackTypes ==
  {"bar", "pie", "composed"}

NextFallback ==
  \/ \E detected \in FallbackTypes, d \in DataSets, p \in Prompts :
       RunEffectDetected(detected, d, p)
  \/ TimerFire

SpecFallback ==
  Init /\ [][NextFallback]_vars

----------------------------------------------------------------------------
(* Palette specification: getRandomColorPalette called by any importer of  *)
(* the module, with any count, from the empty cache of the module load on  *)

\* the counts the calls ask for: below, at and above the default palette
PaletteCounts ==
  {5, 10, PaletteSize, PaletteSize + 5, PaletteSize + 10}

\* one call getRandomColorPalette(count)
PaletteCall(count) ==
  /\ \E seed \in IF Len(cachedColors) < count THEN Seeds ELSE {1} :
       \E r \in {getRandomColorPalette(cachedColors, count, seed)} :
         /\ cachedColors' = r.cachedColors
         /\ paletteCalls' = paletteCalls \cup {[count |-> count, colors |-> r.colors]}
  /\ UNCHANGED <<data, prompt, dataKeysMemo, previousHashRef, chartConfig,
                 error, timers, detectedType, produced, warned>>

InitPalette ==
  Unmounted(SalesData, DefaultPrompt)

NextPalette ==
  \E count \in PaletteCounts : PaletteCall(count)

SpecPalette ==
  InitPalette /\ [][NextPalette]_vars

----------------------------------------------------------------------------
(* Handler specification: the lifecycle with the generateChart action of   *)
(* App as the source of new data and prompts                               *)

\* one call of the generateChart handler, with the render and the effect
\* that follow the state updates; without any update nothing is rendered
GenerateChart(call) ==
  \E newData \in {HandlerData(call.data, data)}, newPrompt \in {HandlerPrompt(call)} :
    /\ call.data[1] \in {"arr", "obj"} \/ newPrompt # prompt
    /\ RunEffect(newData, newPrompt)

NextHandler ==
  \/ \E call \in HandlerCalls : GenerateChart(call)
  \/ TimerFire

SpecHandler ==
  Init /\ [][NextHandler]_vars

----------------------------------------------------------------------------
(* Series specification: the component mounted with the data and prompts   *)
(* that select the categorical-axis builders and the trendlines            *)

InitSeries ==
  \E d \in SeriesDataSets, p \in SeriesPrompts : Unmounted(d, p)

SpecSeries ==
  InitSeries /\ [][NextMount]_vars

----------------------------------------------------------------------------
(* Field specification: the component mounted with data whose fields the   *)
(* prompts name                                                            *)

InitFields ==
  \E d \in FieldDataSets, p \in FieldPrompts : Unmounted(d, p)

SpecFields ==
  InitFields /\ [][NextMount]_vars

----------------------------------------------------------------------------
(* Properties of the chart-type detection, under SpecDetect                *)

\* prompt.toLowerCase().trim(), what the detection searches
PromptLower ==
  Trim(ToLowerCase(prompt))

\* the pairs <<chart type, keyword>> of the registry whose keyword occurs
\* in s as a whole word
OccurringKeywords(s) ==
  { o \in UNION { { <<ECHARTS_TYPE_CONFIGS[i].chartType,
                      ECHARTS_TYPE_CONFIGS[i].keywords[k]>> :
                    k \in DOMAIN ECHARTS_TYPE_CONFIGS[i].keywords } :
                  i \in RegistryIndex } :
      KeywordRegexTest(o[2], s) }

MatchingTypes(s) ==
  { o[1] : o \in OccurringKeywords(s) }

\* C7: for every prompt in which keywords of several chart types occur, the
\* detected type is one that owns a longest keyword occurring in the prompt
C7_LongestKeywordWins ==
  (detectedType # "" /\ Cardinality(MatchingTypes(PromptLower)) >= 2
     /\ ~IsMultipleTrendline(PromptLower))
    => \E o \in OccurringKeywords(PromptLower) :
         /\ o[1] = detectedType
         /\ \A q \in OccurringKeywords(PromptLower) : Len(q[2]) <= Len(o[2])

\* the specialised chart types with the base type whose keyword is a part
\* of their multi-word keyword
SpecialisedTypes ==
  { <<"stackedbar", "bar">>, <<"stackedarea", "area">>, <<"groupedbar", "bar">>,
    <<"radialbar", "bar">>, <<"polararea", "area">> }

\* a keyword of the type special, of several words, one of which is a
\* keyword of the type base, occurs in s
SpecialisedKeywordOccurs(special, base, s) ==
  \E o \in OccurringKeywords(s) :
    /\ o[1] = special
    /\ \E b \in Range(ECHARTS_TYPE_CONFIGS[
                  CHOOSE i \in RegistryIndex :
                    ECHARTS_TYPE_CONFIGS[i].chartType = base].keywords) :
         /\ Len(b) < Len(o[2])
         /\ b \in Range(SplitWhitespace(o[2]))

ExamplePrompt(phrase) ==
  <<"s","h","o","w"," ","m","e"," ","a"," ">> \o phrase \o <<" ","c","h","a","r","t">>

C9_ReadmePrompts ==
  detectedType # "" =>
    /\ prompt = <<"C","r","e","a","t","e"," ","a"," ","b","a","r"," ","c","h","a","r","t"," ","s","h","o","w","i","n","g"," ","s","a","l","e","s"," ","d","a","t","a">> => detectedType = "bar"
    /\ prompt = <<"M","a","k","e"," ","a"," ","l","i","n","e"," ","g","r","a","p","h"," ","w","i","t","h"," ","t","h","e"," ","d","a","t","a">> => detectedType = "line"
    /\ prompt = <<"S","h","o","w"," ","m","e"," ","a"," ","p","i","e"," ","c","h","a","r","t">> => detectedType = "pie"

----------------------------------------------------------------------------
(* Properties of the lifecycle, under Spec                                 *)

\* the configuration one run of the effect builds for the props d and p
\* when the palette cache holds cache
BuiltConfig(d, p, cache) ==
  LET a == AnalysisTable[d, p][1]
  IN Assemble(TrendlineType(DetectTable[p], a.hasTrendline), a, cache,
              1, 1, 1).produced[1]

\* C1: a run of the effect whose data and prompt are those of the run
\* before it, and valid, invokes no option builder, schedules no callback
\* and leaves the stored fingerprint and the palette cache as they are
C1_Memoization ==
  [][(/\ data' = data
      /\ prompt' = prompt
      /\ Len(timers') >= Len(timers)
      /\ AnalysisTable[data, prompt] # <<>>)
       => (/\ produced' = <<>>
           /\ timers' = timers
           /\ previousHashRef' = previousHashRef
           /\ cachedColors' = cachedColors)]_vars

\* C1 witness: the effect has run again with the valid inputs of the run
\* before it, and built nothing
C1_Witness ==
  /\ AnalysisTable[data, prompt] # <<>>
  /\ previousHashRef = dataPromptHash(data, prompt)
  /\ produced = <<>>

\* the inputs for which the effect is to produce no configuration
NothingToChart(d, p) ==
  \/ Len(d) = 0
  \/ Len(Trim(p)) = 0
  \/ ComputeDataKeys(d).nameKey = NoKey
  \/ ComputeDataKeys(d).valueKey = NoKey

\* C2: once the scheduled callbacks have run, no configuration is exposed
\* if the data is empty, the prompt is blank or the classification has no
\* label key or no value key, and a configuration is exposed otherwise
C2_NullIffNothingToChart ==
  timers = <<>> => (chartConfig = <<>> <=> NothingToChart(data, prompt))

\* C2 witness: a configuration was exposed and has been cleared for data
\* with a label key and no value key
C2_Witness ==
  /\ timers = <<>>
  /\ chartConfig = <<>>
  /\ data = LabelData
  /\ Len(Trim(prompt)) > 0
  /\ ComputeDataKeys(data).nameKey # NoKey
  /\ ComputeDataKeys(data).valueKey = NoKey

\* C3: once the scheduled callbacks have run, the exposed configuration is
\* the one the current data and prompt give
C3_NeverSuperseded ==
  (timers = <<>> /\ chartConfig # <<>> /\ AnalysisTable[data, prompt] # <<>>)
    => chartConfig[1].echartsOption
         = BuiltConfig(data, prompt, cachedColors).echartsOption

\* the colors of the series the builder draws from config.colors
PaletteDrawn(config) ==
  \A s \in DOMAIN config.echartsOption.series :
    LET series == config.echartsOption.series[s]
    IN IF series.type = "pie"
         THEN \A r \in DOMAIN series.data :
                series.data[r].color = ColorAt(config.colors, r - 1)
         ELSE series.lineType = "solid"
                => series.color = ColorAt(config.colors, s - 1)

\* config is what one run of the effect builds for one pair of inputs
BuiltInOneRun(config) ==
  /\ \E d \in DataSets, p \in Prompts :
       /\ AnalysisTable[d, p] # <<>>
       /\ config = BuiltConfig(d, p, cachedColors)
       /\ config.promptHash = dataPromptHash(d, p)
  /\ PaletteDrawn(config)

\* C4: the exposed configuration, and every configuration a pending
\* callback carries, is null or the complete configuration of one run of
\* the effect for one pair of inputs, its colors being those its option
\* was built with
C4_WholeConfiguration ==
  /\ chartConfig # <<>> => BuiltInOneRun(chartConfig[1])
  /\ \A t \in DOMAIN timers :
       (timers[t].setsConfig /\ timers[t].config # <<>>)
         => BuiltInOneRun(timers[t].config[1])

\* C4 witness: the bar configuration of the mount has been replaced by a
\* pie configuration
C4_Witness ==
  /\ timers = <<>>
  /\ chartConfig # <<>>
  /\ chartConfig[1].chartType = "pie"
  /\ data = SalesData

----------------------------------------------------------------------------
(* Properties of the failed registry lookup, under SpecFallback            *)

----------------------------------------------------------------------------
(* Properties of the interpretation, under SpecMount                       *)

\* the prompt has no chart keyword, no trendline word, no field mention
\* and no color
NoSignal(d, p) ==
  /\ MatchingTypes(Trim(ToLowerCase(p))) = {}
  /\ ~AnalysisTable[d, p][1].hasTrendline
  /\ AnalysisTable[d, p][1].mentionedKeys = <<>>
  /\ AnalysisTable[d, p][1].extractedColors = <<>>

\* the configuration of the mount has the documented defaults
DocumentedDefaults ==
  /\ produced # <<>>
  /\ produced[1].chartType = "bar"
  /\ produced[1].dataMapping.nameKey = ComputeDataKeys(data).nameKey
  /\ produced[1].dataMapping.valueKey = ComputeDataKeys(data).valueKey
  /\ produced[1].dataMapping.dataKeys = NoKey
  /\ Len(produced[1].colors) = PaletteSize
  /\ produced[1].colors = SubSeq(cachedColors, 1, PaletteSize)
  /\ Len(produced[1].echartsOption.series) = 1

\* C10 as stated: the effect of the mount, for valid inputs whose prompt
\* has no chart keyword, no trendline word, no field mention and no color,
\* produces the configuration with the documented defaults
C10_DefaultsWithoutSignal ==
  (previousHashRef # <<>> /\ NoSignal(data, prompt)) => DocumentedDefaults

\* promptLower has one of the words of the comparison rule
ComparisonWord(p) ==
  HasComparisonWord(Trim(ToLowerCase(p)))

\* C10 amended: the effect of the mount, for valid inputs whose prompt has
\* no chart keyword, no trendline word, no field mention, no color and
\* none of the comparison words " vs ", " versus " and " and ", produces
\* the configuration with the documented defaults
C10_DefaultsWithoutSignalOrComparison ==
  (previousHashRef # <<>> /\ NoSignal(data, prompt) /\ ~ComparisonWord(prompt))
    => DocumentedDefaults

\* C10 witness: the mount with data of two numeric fields, the second of
\* which is the classifier's value key, and a prompt without signal
C10_Witness ==
  /\ data = GrowthData
  /\ prompt = <<"p","l","o","t"," ","i","t">>
  /\ previousHashRef # <<>>
  /\ NoSignal(data, prompt)
  /\ ~ComparisonWord(prompt)
  /\ produced # <<>>
  /\ produced[1].dataMapping.valueKey # ComputeDataKeys(data).numericKeys[1]

----------------------------------------------------------------------------
(* Properties of the trendline rules, under SpecMount                      *)

\* s contains "dual" or "multiple", a space and "trendline" or "trend line"
MultipleTrendlinePhrase(s) ==
  \E q \in { <<"d","u","a","l">>, <<"m","u","l","t","i","p","l","e">> } :
    \E t \in { <<"t","r","e","n","d","l","i","n","e">>, <<"t","r","e","n","d"," ","l","i","n","e">> } :
      Includes(s, q \o <<" ">> \o t)

\* C11: for every prompt that contains "dual" or "multiple" followed by
\* "trendline" or "trend line", the configuration of the mount has chart
\* type "line", whatever chart keywords the prompt has, and the effect has
\* set both the multiple-trendline flag and the trendline flag
C11_MultipleTrendlinePriority ==
  (produced # <<>> /\ MultipleTrendlinePhrase(Trim(ToLowerCase(prompt))))
    => /\ produced[1].chartType = "line"
       /\ AnalysisTable[data, prompt][1].multipleTrendlines
       /\ AnalysisTable[data, prompt][1].hasTrendline

----------------------------------------------------------------------------
(* Properties of the flattener, under SpecClassify                         *)

\* a number, a string or a boolean
Primitive(v) ==
  v[1] \in {"num", "str", "bool"}

\* a non-empty array of primitives
PrimitiveArray(v) ==
  /\ v[1] = "arr"
  /\ v[2] # <<>>
  /\ \A i \in DOMAIN v[2] : Primitive(v[2][i])

\* a non-empty array of objects
ObjectArray(v) ==
  /\ v[1] = "arr"
  /\ v[2] # <<>>
  /\ \A i \in DOMAIN v[2] : v[2][i][1] = "obj"

\* the synthetic key of a path of steps <<"key", k>> and <<"index", i>>:
\* keys joined by dots, 0-based indices in brackets
RECURSIVE KeyOf(_)
KeyOf(path) ==
  IF path = <<>> THEN <<>>
  ELSE LET front == KeyOf(SubSeq(path, 1, Len(path) - 1))
           step == path[Len(path)]
       IN IF step[1] = "index"
            THEN front \o <<"[">> \o NumberToString(step[2]) \o <<"]">>
          ELSE IF front = <<>> THEN step[2]
          ELSE front \o <<".">> \o step[2]

\* the pairs <<path, value>> of the primitive leaves and the arrays of
\* primitives that are reachable in v through objects and arrays
RECURSIVE ReachableLeaves(_, _)
ReachableLeaves(v, path) ==
  IF Primitive(v) \/ PrimitiveArray(v) THEN { <<path, v>> }
  ELSE IF v[1] = "obj"
    THEN UNION { ReachableLeaves(v[2][i][2], Append(path, <<"key", v[2][i][1]>>)) :
                 i \in DOMAIN v[2] }
  ELSE IF v[1] = "arr"
    THEN UNION { ReachableLeaves(v[2][i], Append(path, <<"index", i - 1>>)) :
                 i \in DOMAIN v[2] }
  ELSE {}

\* the pairs <<path, value>> of the leaves of v that lie inside nested plain
\* objects and arrays of objects: primitives, null, undefined and arrays
\* of primitives
RECURSIVE NestedLeaves(_, _)
NestedLeaves(v, path) ==
  IF Primitive(v) \/ PrimitiveArray(v) \/ v[1] \in {"null", "undef"}
    THEN { <<path, v>> }
  ELSE IF v[1] = "obj"
    THEN UNION { NestedLeaves(v[2][i][2], Append(path, <<"key", v[2][i][1]>>)) :
                 i \in DOMAIN v[2] }
  ELSE IF ObjectArray(v)
    THEN UNION { NestedLeaves(v[2][i], Append(path, <<"index", i - 1>>)) :
                 i \in DOMAIN v[2] }
  ELSE {}

\* C12: for every record of the data, every primitive leaf and every array
\* of primitives reachable in it is in the flattened record under the
\* synthetic key of its path, no two of them have the same synthetic key,
\* and no array that holds an object is stored as one value
C12_EveryLeafUnderOneKey ==
  dataKeysMemo # <<>> => \A r \in DOMAIN data :
    LET flat == dataKeysMemo[1].flattenedData[r]
        leaves == ReachableLeaves(data[r], <<>>)
    IN /\ \A l \in leaves :
            HasKey(flat, KeyOf(l[1])) /\ Get(flat, KeyOf(l[1])) = l[2]
       /\ \A l1, l2 \in leaves : l1 # l2 => KeyOf(l1[1]) # KeyOf(l2[1])
       /\ \A i \in DOMAIN flat :
            flat[i][2][1] = "arr" =>
              \A k \in DOMAIN flat[i][2][2] : flat[i][2][2][k][1] # "obj"

\* C13: keys are named by path.  For every leaf inside nested plain objects
\* and arrays of objects, null and undefined included, the flattened record
\* has the dot-joined, index-bracketed name of the leaf's path as a key,
\* and holds under it the value of a leaf of that name; a null or undefined
\* leaf keeps its value; {a:{b:1,c:2}} flattens to exactly
\* {"a.b":1, "a.c":2} and the elements of the array items to items[0].x
\* and items[1].x
C13_KeysNamedByPath ==
  dataKeysMemo # <<>> => \A r \in DOMAIN data :
    LET flat == dataKeysMemo[1].flattenedData[r]
        leaves == NestedLeaves(data[r], <<>>)
    IN /\ \A l \in leaves :
            /\ HasKey(flat, KeyOf(l[1]))
            /\ \E m \in leaves :
                 KeyOf(m[1]) = KeyOf(l[1]) /\ Get(flat, KeyOf(l[1])) = m[2]
            /\ l[2][1] \in {"null", "undef"} => Get(flat, KeyOf(l[1])) = l[2]
       /\ data[r] = NestedRecord =>
            flat = << <<<<"a",".","b">>, Num(1)>>, <<<<"a",".","c">>, Num(2)>> >>
       /\ data[r] = ItemsRecord =>
            flat = << <<<<"n","a","m","e">>, Str(<<"A">>)>>, <<<<"i","t","e","m","s","[","0","]",".","x">>, Num(1)>>, <<<<"i","t","e","m","s","[","1","]",".","x">>, Num(2)>> >>

\* C13 witness: the memo holds the flattened records of a data set with an
\* array of objects and a nested object
C13_Witness ==
  /\ data = <<ItemsRecord, NestedRecord>>
  /\ dataKeysMemo # <<>>
  /\ Keys(dataKeysMemo[1].flattenedData[1]) = <<<<"n","a","m","e">>, <<"i","t","e","m","s","[","0","]",".","x">>, <<"i","t","e","m","s","[","1","]",".","x">>>>
  /\ Keys(dataKeysMemo[1].flattenedData[2]) = <<<<"a",".","b">>, <<"a",".","c">>>>

\* v is an object or an array that holds one, at any depth
RECURSIVE HoldsObject(_)
HoldsObject(v) ==
  \/ v[1] = "obj"
  \/ v[1] = "arr" /\ \E i \in DOMAIN v[2] : HoldsObject(v[2][i])

\* the record has no nested object
NoNestedObjects(record) ==
  \A i \in DOMAIN record[2] : ~HoldsObject(record[2][i][2])

\* every array of the record is non-empty and starts with a primitive
ArraysStartWithPrimitive(record) ==
  \A i \in DOMAIN record[2] :
    record[2][i][2][1] = "arr" =>
      /\ record[2][i][2][2] # <<>>
      /\ Primitive(record[2][i][2][2][1])

\* flattening the flattened record again gives the same mapping
FlattenedAgainEqual(flat) ==
  flattenObject(Obj(flat), <<>>, <<>>) = flat

----------------------------------------------------------------------------
(* Properties of the field classifier, under SpecClassify                  *)

\* the first element of keys that is in the set chosen
FirstIn(keys, chosen) ==
  keys[CHOOSE i \in DOMAIN keys :
         /\ keys[i] \in chosen
         /\ \A j \in 1..(i - 1) : keys[j] \notin chosen]

\* the keys of the flattened first record whose value is a string
StringKeysOf(flat) ==
  { flat[i][1] : i \in { i \in DOMAIN flat : flat[i][2][1] = "str" } }

\* the string keys whose name matches the label-semantic pattern
LabelLikeKeysOf(flat) ==
  { k \in StringKeysOf(flat) : PatternTest(NamePattern, k) }

\* the string keys whose value parses as a date
DateKeysOf(flat) ==
  { k \in StringKeysOf(flat) : IsDateString(Get(flat, k)[2]) }

\* C15 as stated: when the first record flattens to a non-empty key set,
\* the label key and the value key of the memo are both in allKeys
C15_KeysAreMembers ==
  (dataKeysMemo # <<>> /\ dataKeysMemo[1].allKeys # <<>>) =>
    /\ dataKeysMemo[1].nameKey \in Range(dataKeysMemo[1].allKeys)
    /\ dataKeysMemo[1].valueKey \in Range(dataKeysMemo[1].allKeys)

\* C15 amended: when the first record flattens to a non-empty key set, the
\* label key is in allKeys, and the value key is a numeric key of allKeys
\* if there is a numeric key and the empty string if there is none
C15_LabelKeyMemberValueKeyMemberOrEmpty ==
  (dataKeysMemo # <<>> /\ dataKeysMemo[1].allKeys # <<>>) =>
    /\ dataKeysMemo[1].nameKey \in Range(dataKeysMemo[1].allKeys)
    /\ IF \E i \in DOMAIN dataKeysMemo[1].flattenedData[1] :
            dataKeysMemo[1].flattenedData[1][i][2][1] = "num"
         THEN /\ dataKeysMemo[1].valueKey \in Range(dataKeysMemo[1].allKeys)
              /\ Get(dataKeysMemo[1].flattenedData[1], dataKeysMemo[1].valueKey)[1] = "num"
         ELSE dataKeysMemo[1].valueKey = <<>>

\* C15 witness: the memo of a record with a string field and no numeric
\* field: a label key that is in allKeys and an empty value key
C15_Witness ==
  /\ data = <<MatrixRecord>>
  /\ dataKeysMemo # <<>>
  /\ dataKeysMemo[1].allKeys = <<<<"n","a","m","e">>>>
  /\ dataKeysMemo[1].nameKey = <<"n","a","m","e">>
  /\ dataKeysMemo[1].valueKey = <<>>

\* C16: the label key is the first string key with a label-like name; if
\* there is none, the first date-like key; if there is none, the first
\* string key; if there is none, the first key
C16_LabelKeyPriority ==
  (dataKeysMemo # <<>> /\ dataKeysMemo[1].allKeys # <<>>) =>
    LET flat == dataKeysMemo[1].flattenedData[1]
        keys == Keys(flat)
    IN dataKeysMemo[1].nameKey =
         IF LabelLikeKeysOf(flat) # {} THEN FirstIn(keys, LabelLikeKeysOf(flat))
         ELSE IF DateKeysOf(flat) # {} THEN FirstIn(keys, DateKeysOf(flat))
         ELSE IF StringKeysOf(flat) # {} THEN FirstIn(keys, StringKeysOf(flat))
         ELSE keys[1]

\* C16 witness: a record whose date field comes after another string
\* field, none with a label-like name: the date field is the label key
C16_Witness ==
  /\ data = <<DateRecord>>
  /\ dataKeysMemo # <<>>
  /\ LabelLikeKeysOf(dataKeysMemo[1].flattenedData[1]) = {}
  /\ dataKeysMemo[1].stringKeys[1] = <<"f","o","o">>
  /\ dataKeysMemo[1].nameKey = <<"w","h","e","n">>

----------------------------------------------------------------------------
(* Properties of the option builders, under SpecBuild                      *)

ProportionalTypes ==
  {"pie", "donut", "sunburst", "treemap", "funnel"}

\* the records the builder of the produced configuration was given
BuiltRecords ==
  dataKeysMemo[1].flattenedData

\* the number that the text s starts with, 0 when it starts with none; for
\* texts without sign, leading blank, fraction and exponent
LeadingNumber(s) ==
  LET n == CHOOSE n \in 0..Len(s) :
             /\ \A k \in 1..n : s[k] \in Range(DigitSeq)
             /\ n = Len(s) \/ s[n + 1] \notin Range(DigitSeq)
  IN DigitsValue(SubSeq(s, 1, n))

\* the value of a field as a number: a number is itself, a text is the
\* number it starts with, anything else is 0
CoercedValue(val) ==
  IF val[1] = "num" THEN val[2]
  ELSE IF val[1] = "str" THEN LeadingNumber(val[2])
  ELSE 0

\* the value of a field as a label: a text is itself, a number its
\* numeral, a missing field the empty text
LabelText(val) ==
  IF val[1] = "str" THEN val[2]
  ELSE IF val[1] = "num" /\ val[2] # 0 THEN NumberToString(val[2])
  ELSE <<>>

\* a number is itself, anything else counts as 0
NumberOf(val) ==
  IF val[1] = "num" THEN val[2] ELSE 0

NearestRank(values, k) ==
  CHOOSE v \in Range(values) :
    /\ Cardinality({ i \in DOMAIN values : values[i] < v }) <= k
    /\ k < Cardinality({ i \in DOMAIN values : values[i] <= v })

\* C18: a boxplot configuration has one series with one entry, the five
\* values at the positions 0, floor(n/4), floor(n/2), floor(3n/4) and n-1
\* of the ascending order of the n values of the value key, non-numbers
\* counted as 0; the positions are inside the array, the entry is
\* non-decreasing, and for the values 1..10 it is [1, 3, 6, 8, 10]
C18_BoxplotFiveNumbers ==
  (produced # <<>> /\ produced[1].chartType = "boxplot") =>
    LET series == produced[1].echartsOption.series
        values == [r \in DOMAIN data |->
                     NumberOf(Get(BuiltRecords[r], produced[1].dataMapping.valueKey))]
        n == Len(data)
    IN /\ Len(series) = 1
       /\ Len(series[1].data) = 1
       /\ {n \div 4, n \div 2, (3 * n) \div 4, n - 1} \subseteq 0..(n - 1)
       /\ series[1].data[1] = <<NearestRank(values, 0), NearestRank(values, n \div 4),
                               NearestRank(values, n \div 2),
                               NearestRank(values, (3 * n) \div 4),
                               NearestRank(values, n - 1)>>
       /\ \A k \in 1..4 : series[1].data[1][k] <= series[1].data[1][k + 1]
       /\ data = TenValuesData => series[1].data[1] = <<1, 3, 6, 8, 10>>

\* C18 witness: the boxplot configuration of the values 1..10
C18_Witness ==
  /\ data = TenValuesData
  /\ produced # <<>>
  /\ produced[1].chartType = "boxplot"
  /\ produced[1].echartsOption.series[1].data = << <<1, 3, 6, 8, 10>> >>

\* the numeric fields resolved for the produced configuration, in order
ResolvedFields ==
  IF produced[1].dataMapping.dataKeys # <<>>
    THEN SplitDataKeys(produced[1].dataMapping.dataKeys)
    ELSE <<produced[1].dataMapping.valueKey>>

\* C19: every entry of a candlestick configuration is [open, close, low,
\* high] read from the first, second, third and fourth resolved field;
\* with fewer than four fields open is still the first field, close the
\* second, and low and high are min(open, close) and max(open, close)
C19_CandlestickByPosition ==
  (produced # <<>> /\ produced[1].chartType = "candlestick") =>
    \A r \in DOMAIN data :
      LET entry == produced[1].echartsOption.series[1].data[r]
          Field(k) == Get(BuiltRecords[r], ResolvedFields[k])
      IN /\ entry[1] = NumberOf(Field(1))
         /\ Len(ResolvedFields) >= 2 => entry[2] = NumberOf(Field(2))
         /\ IF Len(ResolvedFields) >= 4
              THEN /\ entry[3] = IF Field(3)[1] = "num" THEN Field(3)[2]
                                 ELSE Min2(entry[1], entry[2])
                   /\ entry[4] = IF Field(4)[1] = "num" THEN Field(4)[2]
                                 ELSE Max2(entry[1], entry[2])
              ELSE /\ entry[3] = Min2(entry[1], entry[2])
                   /\ entry[4] = Max2(entry[1], entry[2])

----------------------------------------------------------------------------
(* Properties of the color extraction, under SpecMount                     *)

\* the color name of an entry of the color table stands in s at position
\* i as a whole word
NamedAt(s, i, entry) ==
  /\ WordBoundary(s, i)
  /\ MatchAt(entry[1], s, i)
  /\ WordBoundary(s, i + Len(entry[1]))

\* the pairs <<position, color>> of the color names that occur in s as
\* whole words
NameMentions(s) ==
  { <<m[1], colorMap[m[2]][2]>> :
      m \in { m \in (1..Len(s)) \X DOMAIN colorMap :
                NamedAt(s, m[1], colorMap[m[2]]) } }

\* the pairs <<position, color>> of the hex colors written in s, a
\* three-digit color in its six-digit form
HexMentions(s) ==
  { <<i, NormalizeHex(SubSeq(s, i, i + HexRun(s, i)))>> :
      i \in { i \in 1..Len(s) : s[i] = "#" /\ HexRun(s, i) >= 3 } }

\* the pairs <<position, color>> of the rgb( ) and rgba( ) colors in s
RgbMentions(s) ==
  { <<i, SubSeq(s, i, RgbMatchEnd(s, i))>> :
      i \in { i \in 1..Len(s) : RgbMatchEnd(s, i) # 0 } }

\* the colors of a set of mentions, by ascending position
RECURSIVE ByPosition(_)
ByPosition(mentions) ==
  IF mentions = {} THEN <<>>
  ELSE LET first == CHOOSE m \in mentions : \A o \in mentions : m[1] <= o[1]
       IN <<first[2]>> \o ByPosition(mentions \ {first})

\* the named colors that occur in s, in the order of the color table
NamedInTableOrder(s) ==
  LET found == SelectSeq(colorMap, LAMBDA entry :
                 \E i \in 1..Len(s) : NamedAt(s, i, entry))
  IN [i \in DOMAIN found |-> found[i][2]]

\* seq without the repetitions of an earlier element
FirstOccurrences(seq) ==
  LET kept == { i \in DOMAIN seq : \A j \in 1..(i - 1) : seq[j] # seq[i] }
      Position(n) == CHOOSE i \in kept : Cardinality({ j \in kept : j < i }) = n - 1
  IN [n \in 1..Cardinality(kept) |-> seq[Position(n)]]

\* the colors of the configuration are the generated palette
PaletteUsed ==
  /\ Len(produced[1].colors) = PaletteSize
  /\ produced[1].colors = SubSeq(cachedColors, 1, PaletteSize)

\* C20 as stated: the colors of the configuration are the colors found in
\* the prompt, without duplicates, in the order in which they occur in the
\* prompt text; "make it red and #00ff00" gives #ff0000, #00ff00; without
\* color in the prompt the generated palette is used
C20_ColorsInTextOrder ==
  produced # <<>> =>
    \E found \in { FirstOccurrences(ByPosition(
                   NameMentions(PromptLower) \cup HexMentions(PromptLower)
                     \cup RgbMentions(PromptLower))) } :
       /\ IF found = <<>> THEN PaletteUsed ELSE produced[1].colors = found
       /\ prompt = <<"m","a","k","e"," ","i","t"," ","r","e","d"," ","a","n","d"," ","#","0","0","f","f","0","0">> =>
            produced[1].colors = <<<<"#","f","f","0","0","0","0">>, <<"#","0","0","f","f","0","0">>>>

\* C20 amended: the colors of the configuration are the named colors that
\* occur in the prompt, in the order of the color table, then the hex
\* colors in the order of the text, then the rgb colors in the order of
\* the text, each color once, at its first place; "make it red and
\* #00ff00" gives #ff0000, #00ff00; without color in the prompt the
\* generated palette is used
C20_ColorsInDiscoveryOrder ==
  produced # <<>> =>
    \E found \in { FirstOccurrences(NamedInTableOrder(PromptLower)
                   \o ByPosition(HexMentions(PromptLower))
                   \o ByPosition(RgbMentions(PromptLower))) } :
       /\ IF found = <<>> THEN PaletteUsed ELSE produced[1].colors = found
       /\ prompt = <<"m","a","k","e"," ","i","t"," ","r","e","d"," ","a","n","d"," ","#","0","0","f","f","0","0">> =>
            produced[1].colors = <<<<"#","f","f","0","0","0","0">>, <<"#","0","0","f","f","0","0">>>>

\* C20 witness: a prompt that names a color by name, by three-digit hex
\* and by six-digit hex, and a configuration with that one color
C20_Witness ==
  /\ prompt = <<"r","e","d",","," ","#","f","0","0"," ","o","r"," ","#","f","f","0","0","0","0"," ","b","a","r","s">>
  /\ produced # <<>>
  /\ Cardinality(NameMentions(PromptLower) \cup HexMentions(PromptLower)) = 3
  /\ produced[1].colors = <<<<"#","f","f","0","0","0","0">>>>

----------------------------------------------------------------------------
(* Properties of the hex colors, under SpecMount                           *)

\* a "#" followed by exactly six hex digits
SixDigitHex(color) ==
  /\ Len(color) = 7
  /\ color[1] = "#"
  /\ \A k \in 2..7 : color[k] \in HexDigits

\* C21: every hex color of the configuration is in six-digit form: a
\* three-digit literal #rgb of the prompt is returned as #rrggbb, a
\* six-digit literal as written, and no literal of four or five digits is
\* returned
C21_HexColorsSixDigits ==
  produced # <<>> =>
    /\ \A i \in DOMAIN produced[1].colors :
         produced[1].colors[i][1] = "#" => SixDigitHex(produced[1].colors[i])
    /\ prompt = <<"p","l","o","t"," ","i","t"," ","i","n"," ","#","a","b","c">> => produced[1].colors = <<<<"#","a","a","b","b","c","c">>>>
    /\ prompt = <<"m","a","k","e"," ","i","t"," ","r","e","d"," ","a","n","d"," ","#","0","0","f","f","0","0">> => produced[1].colors = <<<<"#","f","f","0","0","0","0">>, <<"#","0","0","f","f","0","0">>>>

----------------------------------------------------------------------------
(* Properties of the palette cache, under SpecPalette                      *)

\* the largest count the calls so far asked for
HighWaterMark ==
  CHOOSE n \in { c.count : c \in paletteCalls } :
    \A c \in paletteCalls : c.count <= n

\* the arrays a and b hold the same colors at the positions both have
SameWhereBoth(a, b) ==
  \A k \in DOMAIN a \cap DOMAIN b : a[k] = b[k]

\* C22: every getRandomColorPalette(n) call returns exactly n colors, the
\* cache never becomes shorter, and a call with n not larger than the
\* largest count asked for so far returns, position for position, the
\* colors every earlier call returned
C22_PaletteStable ==
  [][ /\ Len(cachedColors') >= Len(cachedColors)
      /\ \A c \in paletteCalls' \ paletteCalls :
           /\ Len(c.colors) = c.count
           /\ (paletteCalls # {} /\ c.count <= HighWaterMark) =>
                \A earlier \in paletteCalls : SameWhereBoth(c.colors, earlier.colors) ]_vars

----------------------------------------------------------------------------
(* Properties of the generateChart handler, under SpecHandler              *)

\* the data value of a call is neither an array nor an object
RejectedValue(value) ==
  value[1] \notin {"arr", "obj"}

\* C23: the handler takes an array as the data set as it is and a single
\* object as a one-element array; a call with any other value is rejected:
\* it leaves the data and the prompt unchanged and no configuration is
\* produced from it
C23_HandlerNormalisesOrRejects ==
  [][ \A call \in HandlerCalls :
        GenerateChart(call) =>
          /\ call.data[1] = "arr" => data' = call.data[2]
          /\ call.data[1] = "obj" => data' = <<call.data>>
          /\ RejectedValue(call.data) =>
               /\ data' = data
               /\ prompt' = prompt
               /\ produced' = <<>>
               /\ timers' = timers ]_vars

----------------------------------------------------------------------------
(* Properties of the series of the categorical-axis builders, under        *)
(* SpecSeries                                                              *)

\* the interpretation of the current inputs
Interpreted ==
  AnalysisTable[data, prompt][1]

\* the multi-series field list the builder received, <<>> if there is none
MultiSeriesFields ==
  IF produced[1].dataMapping.dataKeys # NoKey
    THEN SplitDataKeys(produced[1].dataMapping.dataKeys) ELSE <<>>

\* the fields charted as data series
ChartedFields ==
  IF MultiSeriesFields # <<>> THEN MultiSeriesFields
  ELSE <<produced[1].dataMapping.valueKey>>

\* the fields that get a trendline
TrendEligibleFields ==
  IF Interpreted.multipleTrendlines /\ MultiSeriesFields # <<>>
    THEN MultiSeriesFields
    ELSE <<produced[1].dataMapping.valueKey>>

TrendName(field) ==
  field \o <<" ","T","r","e","n","d">>

BuiltSeries ==
  produced[1].echartsOption.series

\* C24: with the trendline flag set, the option holds the data series and,
\* for each trend-eligible field, exactly one dashed, symbol-less series
\* named "<field> Trend" with one point per record, and no other dashed
\* series; the legend lists exactly the names of the series present; the
\* chart type is line or scatter
C24_TrendSeriesPerEligibleField ==
  (produced # <<>> /\ Interpreted.hasTrendline) =>
    /\ produced[1].chartType \in {"line", "scatter"}
    /\ \A f \in Range(TrendEligibleFields) :
         Cardinality({ k \in DOMAIN BuiltSeries :
                         /\ BuiltSeries[k].name = TrendName(f)
                         /\ BuiltSeries[k].lineType = "dashed"
                         /\ BuiltSeries[k].symbol = "none"
                         /\ Len(BuiltSeries[k].data) = Len(data) }) = 1
    /\ Cardinality({ k \in DOMAIN BuiltSeries : BuiltSeries[k].lineType = "dashed" })
         = Cardinality(Range(TrendEligibleFields))
    /\ Cardinality({ k \in DOMAIN BuiltSeries : BuiltSeries[k].lineType # "dashed" })
         = Len(ChartedFields)
    /\ Range(produced[1].echartsOption.legend)
         = { BuiltSeries[k].name : k \in DOMAIN BuiltSeries }

\* the chart types with a categorical axis
CategoricalTypes ==
  {"bar", "stackedbar", "groupedbar", "line", "area", "stackedarea", "scatter",
   "bubble", "histogram", "lollipop", "density", "effectscatter"}

\* the chart types whose series hold points [x, y]
PointTypes ==
  {"scatter", "bubble", "lollipop", "effectscatter"}

\* the value a series holds for a record
SeriesValue(series, r) ==
  IF produced[1].chartType \in PointTypes THEN series.data[r][2] ELSE series.data[r]

\* C25: for every categorical-axis chart type the builder emits one series
\* per field of the multi-series list (one for the value key without a
\* list), each with one value per record, a value that is not a number
\* replaced by 0; the series carry the stack identifier exactly when the
\* chart type is stackedbar or stackedarea
C25_OneSeriesPerField ==
  (/\ produced # <<>>
   /\ produced[1].chartType \in CategoricalTypes
   /\ ~Interpreted.hasTrendline) =>
    /\ Len(BuiltSeries) = Len(ChartedFields)
    /\ \A k \in DOMAIN BuiltSeries :
         /\ BuiltSeries[k].name = ChartedFields[k]
         /\ Len(BuiltSeries[k].data) = Len(data)
         /\ \A r \in DOMAIN data :
              SeriesValue(BuiltSeries[k], r)
                = NumberOf(Get(BuiltRecords[r], ChartedFields[k]))
         /\ BuiltSeries[k].stack # <<>>
              <=> produced[1].chartType \in {"stackedbar", "stackedarea"}
----------------------------------------------------------------------------
(* Properties of the memo after a clear, under Spec                        *)

\* the chartConfig state once the callbacks of pending have run, oldest
\* first, on top of config
RECURSIVE Settled(_, _)
Settled(config, pending) ==
  IF pending = <<>> THEN config
  ELSE Settled(IF Head(pending).setsConfig THEN Head(pending).config ELSE config,
               Tail(pending))

\* a step in which the effect ran with valid inputs and returned at the
\* memo check: no callback was scheduled and none ran
SkippedRun ==
  /\ AnalysisTable[data', prompt'] # <<>>
  /\ timers' = timers
  /\ produced' = <<>>

\* a step in which the effect ran with valid inputs while the stored
\* fingerprint was the empty one the else branch leaves
RunAfterClear ==
  /\ AnalysisTable[data', prompt'] # <<>>
  /\ previousHashRef = <<>>
  /\ Len(timers') >= Len(timers)

\* C26 as stated: a run with valid inputs is never skipped while the
\* exposed configuration is null
C26_NeverSkippedWhileNull ==
  [][SkippedRun => chartConfig # <<>>]_vars

\* C26: a run with valid inputs after a clear builds a configuration and
\* schedules the callback that exposes it, and a run with valid inputs is
\* skipped only if the configuration of these inputs is exposed or will be
\* once the pending callbacks have run
C26_ClearResetsMemo ==
  [][/\ RunAfterClear =>
          /\ produced' # <<>>
          /\ produced'[1].promptHash = dataPromptHash(data', prompt')
          /\ timers' = Append(timers, ConfigTimer(produced'[1]))
          /\ Settled(chartConfig', timers') = produced'
     /\ SkippedRun =>
          /\ Settled(chartConfig, timers) # <<>>
          /\ Settled(chartConfig, timers)[1].promptHash
               = dataPromptHash(data', prompt')]_vars

\* C26 witness: the configuration of the default example is exposed, the
\* callback of a clear is pending, and behind it the callback of a run that
\* built the configuration of the same data and prompt again
C26_Witness ==
  /\ data = SalesData
  /\ prompt = DefaultPrompt
  /\ chartConfig # <<>>
  /\ produced # <<>>
  /\ chartConfig[1].promptHash = produced[1].promptHash
  /\ timers = <<ClearTimer, ConfigTimer(produced[1])>>
  /\ previousHashRef = produced[1].promptHash
----------------------------------------------------------------------------
(* Properties of the deferred callbacks, under Spec                        *)

\* a step in which the oldest pending callback ran, and no other
CallbackRan ==
  /\ timers # <<>>
  /\ timers' = Tail(timers)
  /\ chartConfig' = IF Head(timers).setsConfig THEN Head(timers).config
                    ELSE chartConfig

\* a step in which a run of the effect scheduled one callback behind the
\* pending ones and changed no state of the component
RunScheduled ==
  /\ Len(timers') = Len(timers) + 1
  /\ SubSeq(timers', 1, Len(timers)) = timers
  /\ chartConfig' = chartConfig

\* C27: callbacks leave the queue only by running, oldest first; a run
\* changes the exposed configuration only through the callback it appends;
\* the configuration exposed once the pending callbacks have run is the
\* result of the latest run that scheduled one, null if that run rejected
\* its inputs, and running a callback does not change it
C27_CallbacksInOrder ==
  /\ [][/\ timers' # timers => CallbackRan \/ RunScheduled
        /\ timers' = timers => chartConfig' = chartConfig
        /\ CallbackRan =>
             Settled(chartConfig', timers') = Settled(chartConfig, timers)
        /\ RunScheduled =>
             /\ Settled(chartConfig', timers') = produced'
             /\ produced' = <<>> <=> AnalysisTable[data', prompt'] = <<>>]_vars
  /\ [](timers = <<>> =>
          /\ chartConfig = <<>> <=> previousHashRef = <<>>
          /\ chartConfig # <<>> => chartConfig[1].promptHash = previousHashRef)

\* C27 witness: the callback of a run that built a configuration is pending
\* and behind it the callback of a later run that rejected its inputs
C27_Witness ==
  /\ Len(timers) = 2
  /\ timers[1].config # <<>>
  /\ timers[2] = ClearTimer
  /\ AnalysisTable[data, prompt] = <<>>
  /\ previousHashRef = <<>>
  /\ Settled(chartConfig, timers) = <<>>
----------------------------------------------------------------------------
(* Properties of the field resolution, under SpecFields                    *)

\* the keys of the first record's flattened shape
FlattenedKeys ==
  Range(DataKeysTable[data].allKeys)

\* C28: whenever a produced configuration has a multi-series field list,
\* the list the builder receives after join(",") and split(",") has at
\* least two entries, each a key of the first record's flattened shape, its
\* first entry is dataMapping.valueKey, and it is the list that was joined
C28_FieldListSurvivesJoinAndSplit ==
  (produced # <<>> /\ produced[1].dataMapping.dataKeys # NoKey) =>
    /\ Len(MultiSeriesFields) >= 2
    /\ Range(MultiSeriesFields) \subseteq FlattenedKeys
    /\ MultiSeriesFields[1] = produced[1].dataMapping.valueKey
    /\ MultiSeriesFields = Interpreted.fieldList

\* the words of the prompt, as the comparison rule splits it
PromptWords ==
  Range(SplitWhitespace(Trim(ToLowerCase(prompt))))

\* the numeric fields whose name is a word of the prompt
NamedNumericFields ==
  { key \in Range(DataKeysTable[data].numericKeys) : ToLowerCase(key) \in PromptWords }

\* the value key and the fields of the multi-series list of the produced
\* configuration
ChartedInMapping ==
  {produced[1].dataMapping.valueKey} \cup Range(Interpreted.fieldList)

\* C29: every numeric field whose exact name is a word of the prompt is the
\* value key or a member of the multi-series field list of the produced
\* configuration
C29_NamedNumericFieldCharted ==
  produced # <<>> => NamedNumericFields \subseteq ChartedInMapping

\* C30: in every produced configuration the value key and every entry of
\* the multi-series field list is a key of the numeric set of the
\* classification
C30_ValueFieldsNumeric ==
  produced # <<>> => ChartedInMapping \subseteq Range(DataKeysTable[data].numericKeys)

====
